---- MODULE Spec2Model ----
(***************************************************************************)
(* Authorization policy engine and permission synchronisation of the       *)
(* Pulsar console: permission catalog, role / assignment store, policy     *)
(* evaluator (RBACService) and the RBAC sync engine (RbacSyncService).     *)
(*                                                                         *)
(* Strings whose characters matter (resource paths and resource patterns)  *)
(* are sequences of one-character strings; names that are only compared    *)
(* for equality (role names, actions, levels, ids) are plain strings.      *)
(***************************************************************************)
EXTENDS Integers, Sequences, FiniteSets, Bags, TLC

VARIABLES
    permissions,       \* table permissions: sequence of rows, id = position
    environments,      \* table environments: id -> [rbac_enabled, rbac_sync_mode]
    users,             \* table users: id -> [is_global_admin]
    roles,             \* table roles: set of [id, environment_id, name, is_system]
    role_permissions,  \* table role_permissions joined with permissions:
                       \* set of [role_id, action, resource_level, resource_pattern]
    user_roles,        \* table user_roles: bag of [user_id, role_id]
    oidc_providers,    \* table oidc_providers: environment_id -> provider row
    settings,          \* process settings read at login
    sync_task,         \* the sync_namespace call that is between its read and its return
    login_tasks,       \* the authenticate_oidc calls in flight: subject -> what each read
    pulsar,            \* external permission store: namespace -> (role -> list of actions)
    resp               \* outcome of the last call

vars == <<permissions, environments, users, roles, role_permissions, user_roles,
          oidc_providers, settings, sync_task, login_tasks, pulsar, resp>>

----------------------------------------------------------------------------
(* Bounds of the model *)

MaxCustomRoles == 1     \* roles created by an administrator
MaxAssignments == 2     \* rows of user_roles
MaxGrants == 1          \* grants added by an administrator

----------------------------------------------------------------------------
(* Identifiers *)

Envs == {"e1", "e2"}          \* the environments that exist
EnvOrder == <<"e1", "e2">>    \* order in which select(Environment) returns them
NoEnv == "e0"                 \* an environment id that matches no environment
UserIds == {"u1", "u2"}       \* identities that may log in
Ghost == "u0"                 \* an identity id that matches no user
FirstUser == "u1"             \* the first user that logged in

PermissionAction == {"produce", "consume", "functions", "sources", "sinks",
                     "packages", "admin", "read", "write"}
ResourceLevel == {"cluster", "tenant", "namespace", "topic"}

(* Character strings *)
None == <<"None">>            \* Python None for an optional string
Star == <<"*">>
Slash == <<"/">>
Str_a == <<"a">>
Str_ab == <<"a", "b">>
Str_n == <<"n">>
Str_m == <<"m">>
Str_error == <<"_", "e", "r", "r", "o", "r">>     \* the key "_error"
Path(tenant, namespace) == tenant \o Slash \o namespace

StartsWith(s, pre) ==
    /\ Len(pre) <= Len(s)
    /\ SubSeq(s, 1, Len(pre)) = pre

EndsWith(s, suf) ==
    /\ Len(suf) <= Len(s)
    /\ SubSeq(s, Len(s) - Len(suf) + 1, Len(s)) = suf

(* Python dicts *)
EmptyMap == [ x \in {} |-> x ]

(* adding or replacing one key of a dict *)
Put(d, k, v) == [ x \in DOMAIN d \cup {k} |-> IF x = k THEN v ELSE d[x] ]

(* deleting one key of a dict *)
Drop(d, k) == [ x \in DOMAIN d \ {k} |-> d[x] ]

(* F applied to the value of v, with v computed once *)
With(v, F(_)) == CHOOSE y \in { F(x) : x \in {v} } : TRUE

----------------------------------------------------------------------------
(* Permission catalog *)

P(a, l) == [action |-> a, resource_level |-> l]

PERMISSION_DEFINITIONS ==
    << P("produce", "topic"), P("consume", "topic"),
       P("functions", "namespace"), P("sources", "namespace"),
       P("sinks", "namespace"), P("packages", "namespace"),
       P("admin", "cluster"), P("read", "cluster"),
       P("admin", "tenant"), P("read", "tenant"), P("write", "tenant"),
       P("admin", "namespace"), P("read", "namespace"), P("write", "namespace"),
       P("admin", "topic"), P("read", "topic"), P("write", "topic") >>

DEFAULT_PERMISSIONS ==
    << P("produce", "topic"), P("consume", "topic"),
       P("functions", "namespace"), P("sources", "namespace"),
       P("sinks", "namespace"), P("packages", "namespace"),
       P("admin", "cluster"), P("read", "cluster"),
       P("admin", "tenant"), P("read", "tenant"), P("write", "tenant"),
       P("admin", "namespace"), P("read", "namespace"), P("write", "namespace"),
       P("read", "topic"), P("write", "topic") >>

ReadAll == << P("read", "cluster"), P("read", "tenant"),
              P("read", "namespace"), P("read", "topic") >>

RoleOrder == << "superuser", "admin", "operator", "developer", "viewer" >>

DEFAULT_ROLES ==
    [ superuser |->
        << P("admin", "cluster"), P("admin", "tenant"), P("admin", "namespace") >>
        \o ReadAll \o
        << P("write", "tenant"), P("write", "namespace"), P("write", "topic"),
           P("produce", "topic"), P("consume", "topic"),
           P("functions", "namespace"), P("sources", "namespace"),
           P("sinks", "namespace"), P("packages", "namespace") >>,
      admin |->
        << P("admin", "tenant"), P("admin", "namespace") >>
        \o ReadAll \o
        << P("write", "tenant"), P("write", "namespace"), P("write", "topic"),
           P("produce", "topic"), P("consume", "topic"),
           P("functions", "namespace"), P("sources", "namespace"),
           P("sinks", "namespace"), P("packages", "namespace") >>,
      operator |->
        ReadAll \o << P("write", "topic"), P("produce", "topic"), P("consume", "topic") >>,
      developer |->
        ReadAll \o << P("produce", "topic"), P("consume", "topic") >>,
      viewer |-> ReadAll ]

Range(s) == { s[i] : i \in DOMAIN s }

(* select(Permission).where(action == a, resource_level == l): the ids found *)
PermissionIds(perms, p) == { i \in DOMAIN perms : perms[i] = p }

(* the loop of seed_permissions without the lookup of the existing row *)
SeedLoop_NoLookup(perms, table, n) ==
    [perms |-> perms \o SubSeq(table, 1, n),
     map |-> [ p \in Range(SubSeq(table, 1, n)) |->
                 Len(perms) + (CHOOSE i \in 1..n : table[i] = p) ]]

(* the loop of seed_permissions over the prefix table[1..n]: a pair that has
   a row is looked up, a pair that has none gets one, appended to the table;
   either way the lookup map gets the pair's permission id *)
RECURSIVE SeedLoop(_, _, _)
SeedLoop(perms, table, n) ==
    IF n = 0 THEN [perms |-> perms, map |-> EmptyMap]
    ELSE LET before == SeedLoop(perms, table, n - 1)
             existing == PermissionIds(before.perms, table[n])
         IN  IF existing # {}
             THEN [perms |-> before.perms,
                   map |-> Put(before.map, table[n], CHOOSE i \in existing : TRUE)]
             ELSE [perms |-> Append(before.perms, table[n]),
                   map |-> Put(before.map, table[n], Len(before.perms) + 1)]

----------------------------------------------------------------------------
(* Role store, assignment store *)

RoleIds(rs) == { r.id : r \in rs }

(* a fresh primary key (uuid4): the environment the role is created in, the
   kind of role (the name of a seeded role, "custom" for any other), and a
   serial number that tells it from the keys in use *)
NewId(rs, environment_id, kind) ==
    LET k == CHOOSE n \in 1..(Cardinality(rs) + 1) :
                 /\ <<environment_id, kind, n>> \notin RoleIds(rs)
                 /\ \A m \in 1..(n - 1) : <<environment_id, kind, m>> \in RoleIds(rs)
    IN  <<environment_id, kind, k>>

NoRole == <<"e0", "none", 0>>   \* a key that matches no role

(* RoleRepository.get_by_id *)
get_by_id(role_id) == { r \in roles : r.id = role_id }

(* RoleRepository.get_by_name / get_by_name_and_environment *)
get_by_name(rs, environment_id, name) ==
    { r \in rs : r.environment_id = environment_id /\ r.name = name }

UR(u, r) == [user_id |-> u, role_id |-> r]

(* UserRoleRepository.has_role *)
has_role(user_id, role_id) == BagIn(UR(user_id, role_id), user_roles)

(* UserRoleRepository.has_role_by_name_any_environment *)
has_role_by_name_any_environment(user_id, name) ==
    \E r \in roles : r.name = name /\ has_role(user_id, r.id)

(* ON DELETE CASCADE of role_permissions.role_id and user_roles.role_id *)
CascadeGrants(rp, role_id) == { g \in rp : g.role_id # role_id }

CascadeAssignments(ur, role_id) ==
    LET keep == { x \in BagToSet(ur) : x.role_id # role_id }
    IN  [ x \in keep |-> ur[x] ]

(* the grants one system role gets when it is seeded: one per permission of
   its definition that the lookup map knows, with pattern "*" *)
SeedGrants(seeded, role_id, name) ==
    { [role_id |-> role_id,
       action |-> seeded.perms[seeded.map[p]].action,
       resource_level |-> seeded.perms[seeded.map[p]].resource_level,
       resource_pattern |-> Star] :
      p \in Range(DEFAULT_ROLES[name]) \cap DOMAIN seeded.map }

(* the loop of seed_default_roles / seed_roles_for_environment over the
   first n system roles; st = [r |-> roles, g |-> role_permissions], seeded =
   what seed_permissions returned *)
RECURSIVE SeedRolesLoop(_, _, _, _)
SeedRolesLoop(st, environment_id, seeded, n) ==
    IF n = 0 THEN st
    ELSE LET before == SeedRolesLoop(st, environment_id, seeded, n - 1)
             name == RoleOrder[n]
             id == NewId(before.r, environment_id, name)
         IN  IF get_by_name(before.r, environment_id, name) # {}
             THEN before
             ELSE [r |-> before.r \cup
                         {[id |-> id, environment_id |-> environment_id,
                           name |-> name, is_system |-> TRUE]},
                   g |-> before.g \cup SeedGrants(seeded, id, name)]

(* seed_data.seed_permissions *)
seed_permissions(perms) ==
    SeedLoop(perms, PERMISSION_DEFINITIONS, Len(PERMISSION_DEFINITIONS))

(* seed_data.seed_default_roles *)
seed_default_roles(st, environment_id, seeded) ==
    SeedRolesLoop(st, environment_id, seeded, Len(RoleOrder))

(* SeedService.seed_permissions *)
SeedService_seed_permissions(perms) ==
    SeedLoop(perms, DEFAULT_PERMISSIONS, Len(DEFAULT_PERMISSIONS))

(* SeedService.seed_roles_for_environment *)
seed_roles_for_environment(st, environment_id, seeded) ==
    SeedRolesLoop(st, environment_id, seeded, Len(RoleOrder))

(* SeedService.seed_all_environments: the roles of the first n environments *)
RECURSIVE SeedEnvsLoop(_, _, _, _)
SeedEnvsLoop(st, envs, seeded, n) ==
    IF n = 0 THEN st
    ELSE LET before == SeedEnvsLoop(st, envs, seeded, n - 1)
         IN  IF EnvOrder[n] \in envs
             THEN seed_roles_for_environment(before, EnvOrder[n], seeded)
             ELSE before

----------------------------------------------------------------------------
(* Policy evaluator *)

(* resource pattern matching of UserRoleRepository.check_permission *)
MatchesPattern(pattern, path) ==
    IF pattern = None \/ pattern = Star THEN TRUE
    ELSE IF EndsWith(pattern, Slash \o Star)
         THEN /\ path # None
              /\ StartsWith(path, SubSeq(pattern, 1, Len(pattern) - 1))
         ELSE pattern = path

(* UserRoleRepository.check_permission *)
repo_check_permission(user_id, environment_id, action, resource_level, resource_path) ==
    \E r \in roles :
        /\ r.environment_id = environment_id
        /\ has_role(user_id, r.id)
        /\ \E g \in role_permissions :
              /\ g.role_id = r.id
              /\ g.action = action
              /\ g.resource_level = resource_level
              /\ MatchesPattern(g.resource_pattern, resource_path)

(* is_rbac_enabled that takes a missing environment for an enabled one *)
is_rbac_enabled_MissingIsOn(environment_id) ==
    IF environment_id \in DOMAIN environments
    THEN environments[environment_id].rbac_enabled
    ELSE TRUE

(* RBACService.is_rbac_enabled *)
is_rbac_enabled(environment_id) ==
    IF environment_id \in DOMAIN environments
    THEN environments[environment_id].rbac_enabled
    ELSE FALSE

(* has_superuser_access that looks at the superuser role only *)
has_superuser_access_RoleOnly(user_id) ==
    has_role_by_name_any_environment(user_id, "superuser")

(* RBACService.has_superuser_access *)
has_superuser_access(user_id) ==
    IF user_id \in DOMAIN users /\ users[user_id].is_global_admin
    THEN TRUE
    ELSE has_role_by_name_any_environment(user_id, "superuser")

(* check_permission without the rbac_enabled toggle *)
check_permission_NoToggle(user_id, environment_id, action, resource_level, resource_path) ==
    IF has_superuser_access(user_id) THEN "allow"
    ELSE IF action \notin PermissionAction \/ resource_level \notin ResourceLevel
         THEN "ValueError"
    ELSE IF repo_check_permission(user_id, environment_id, action,
                                  resource_level, resource_path)
         THEN "allow"
         ELSE "deny"

(* check_permission that looks up the grants without the environment *)
check_permission_AnyEnvironment(user_id, environment_id, action, resource_level, resource_path) ==
    IF has_superuser_access(user_id) THEN "allow"
    ELSE IF ~ is_rbac_enabled(environment_id) THEN "allow"
    ELSE IF action \notin PermissionAction \/ resource_level \notin ResourceLevel
         THEN "ValueError"
    ELSE IF \E e \in Envs : repo_check_permission(user_id, e, action,
                                                  resource_level, resource_path)
         THEN "allow"
         ELSE "deny"

(* check_permission that dereferences the user it did not find *)
check_permission_NoUserGuard(user_id, environment_id, action, resource_level, resource_path) ==
    IF user_id \notin DOMAIN users THEN "AttributeError"
    ELSE IF has_superuser_access(user_id) THEN "allow"
    ELSE IF ~ is_rbac_enabled(environment_id) THEN "allow"
    ELSE IF action \notin PermissionAction \/ resource_level \notin ResourceLevel
         THEN "ValueError"
    ELSE IF repo_check_permission(user_id, environment_id, action,
                                  resource_level, resource_path)
         THEN "allow"
         ELSE "deny"

(* check_permission without the enum conversion: an unknown string finds no grant *)
check_permission_NoParse(user_id, environment_id, action, resource_level, resource_path) ==
    IF has_superuser_access(user_id) THEN "allow"
    ELSE IF ~ is_rbac_enabled(environment_id) THEN "allow"
    ELSE IF repo_check_permission(user_id, environment_id, action,
                                  resource_level, resource_path)
         THEN "allow"
         ELSE "deny"

(* RBACService.check_permission: "allow", "deny", or the ValueError the enum
   conversion raises *)
check_permission(user_id, environment_id, action, resource_level, resource_path) ==
    IF has_superuser_access(user_id) THEN "allow"
    ELSE IF ~ is_rbac_enabled(environment_id) THEN "allow"
    ELSE IF action \notin PermissionAction \/ resource_level \notin ResourceLevel
         THEN "ValueError"
    ELSE IF repo_check_permission(user_id, environment_id, action,
                                  resource_level, resource_path)
         THEN "allow"
         ELSE "deny"

----------------------------------------------------------------------------
(* Sync engine *)

ActiveEnv == "e1"             \* EnvironmentRepository.get_active()
Tenant == Str_a               \* the tenant whose namespaces are synced
Namespaces == {Str_n, Str_m}  \* its namespaces on the cluster
NamespaceOrder == <<Str_n, Str_m>>     \* order in which the cluster lists them

(* order of the rows a query returns / of the keys of a dict *)
ActionOrder == << "produce", "consume", "functions", "sources", "sinks",
                  "packages", "admin", "read", "write" >>
NameOrder == << "superuser", "admin", "operator", "developer", "viewer",
                "custom", "dev" >>

(* an iteration that leaves out the last key *)
InOrder_SkipLast(order, S) ==
    LET all == SelectSeq(order, LAMBDA x : x \in S)
    IN  SubSeq(all, 1, Len(all) - 1)

InOrder(order, S) == SelectSeq(order, LAMBDA x : x \in S)

(* PermissionRepository.get_by_role_and_resource: the actions a role is
   granted at (resource_level, resource_path) *)
get_by_role_and_resource(rp, role_id, resource_level, resource_path) ==
    { g.action : g \in { x \in rp : /\ x.role_id = role_id
                                    /\ x.resource_level = resource_level
                                    /\ x.resource_pattern = resource_path } }

(* PermissionRepository.delete_by_role_and_resource *)
delete_by_role_and_resource(rp, role_id, resource_level, resource_path) ==
    { x \in rp : ~ ( /\ x.role_id = role_id
                     /\ x.resource_level = resource_level
                     /\ x.resource_pattern = resource_path ) }

(* RbacSyncService.get_console_permissions: role name -> list of actions *)
get_console_permissions(rs, rp, tenant, namespace) ==
    LET env_roles == { r \in rs : r.environment_id = ActiveEnv }
        acts(r) == get_by_role_and_resource(rp, r.id, "namespace", Path(tenant, namespace))
        with == { r \in env_roles : acts(r) # {} }
    IN  [ name \in { r.name : r \in with } |->
            InOrder(ActionOrder, acts(CHOOSE r \in with : r.name = name)) ]

(* get_diff that compares the two action lists as lists *)
get_diff_ListCompare(console_perms, pulsar_dict) ==
    LET C == DOMAIN console_perms
        D == DOMAIN pulsar_dict
        differ == { role \in C \cap D : console_perms[role] # pulsar_dict[role] }
    IN  [ only_in_console |-> [ role \in C \ D |-> console_perms[role] ],
          only_in_pulsar |-> [ role \in D \ C |-> pulsar_dict[role] ],
          different |-> [ role \in differ |->
                            [console |-> console_perms[role],
                             pulsar |-> pulsar_dict[role]] ],
          same |-> [ role \in (C \cap D) \ differ |-> console_perms[role] ],
          total_console |-> Cardinality(C),
          total_pulsar |-> Cardinality(D) ]

(* RbacSyncService.get_diff on the two role -> actions maps *)
get_diff(console_perms, pulsar_dict) ==
    LET C == DOMAIN console_perms
        D == DOMAIN pulsar_dict
        differ == { role \in C \cap D :
                      Range(console_perms[role]) # Range(pulsar_dict[role]) }
    IN  [ only_in_console |-> [ role \in C \ D |-> console_perms[role] ],
          only_in_pulsar |-> [ role \in D \ C |-> pulsar_dict[role] ],
          different |-> [ role \in differ |->
                            [console |-> console_perms[role],
                             pulsar |-> pulsar_dict[role]] ],
          same |-> [ role \in (C \cap D) \ differ |-> console_perms[role] ],
          total_console |-> Cardinality(C),
          total_pulsar |-> Cardinality(D) ]

(* a change that always names the console *)
SyncChange_SourceConsole(action, role, perms, source) ==
    [action |-> action, role |-> role, permissions |-> perms, source |-> "console"]

SyncChange(action, role, perms, source) ==
    [action |-> action, role |-> role, permissions |-> perms, source |-> source]

(* the list one loop of preview_sync appends: one entry per key of the dict *)
ChangesOf(d, F(_)) ==
    LET keys == InOrder(NameOrder, DOMAIN d)
    IN  [ i \in DOMAIN keys |-> F(keys[i]) ]

(* the error message, word by word *)
NotEnabled == << "RBAC", "sync", "is", "not", "enabled", "for", "this", "environment" >>

NoDirection == "None"         \* direction: SyncDirection | None = None

(* preview_sync that takes console-to-external for every mode but read_from_pulsar *)
preview_sync_DefaultToPulsar(envs, rs, rp, pul, tenant, namespace, direction) ==
    LET mode == envs[ActiveEnv].rbac_sync_mode
        dir == IF direction # NoDirection THEN direction
               ELSE IF mode = "read_from_pulsar" THEN "pulsar_to_console"
               ELSE "console_to_pulsar"
        diff == get_diff(get_console_permissions(rs, rp, tenant, namespace),
                         pul[namespace])
    IN  IF dir = NoDirection
        THEN [direction |-> "console_to_pulsar", changes |-> << >>,
              warnings |-> << >>, errors |-> << NotEnabled >>]
        ELSE IF dir = "console_to_pulsar"
        THEN [direction |-> dir,
              changes |->
                ChangesOf(diff.only_in_console,
                    LAMBDA role : SyncChange("add", role, diff.only_in_console[role], "console"))
                \o ChangesOf(diff.only_in_pulsar,
                    LAMBDA role : SyncChange("remove", role, diff.only_in_pulsar[role], "pulsar"))
                \o ChangesOf(diff.different,
                    LAMBDA role : SyncChange("update", role, diff.different[role].console, "console")),
              warnings |-> InOrder(NameOrder, DOMAIN diff.only_in_pulsar),
              errors |-> << >>]
        ELSE [direction |-> dir,
              changes |->
                ChangesOf(diff.only_in_pulsar,
                    LAMBDA role : SyncChange("add", role, diff.only_in_pulsar[role], "pulsar"))
                \o ChangesOf(diff.only_in_console,
                    LAMBDA role : SyncChange("remove", role, diff.only_in_console[role], "console"))
                \o ChangesOf(diff.different,
                    LAMBDA role : SyncChange("update", role, diff.different[role].pulsar, "pulsar")),
              warnings |-> InOrder(NameOrder, DOMAIN diff.only_in_console),
              errors |-> << >>]

(* preview_sync that tests the environment's mode before the direction *)
preview_sync_ModeFirst(envs, rs, rp, pul, tenant, namespace, direction) ==
    IF envs[ActiveEnv].rbac_sync_mode = "console_only"
    THEN [direction |-> "console_to_pulsar", changes |-> << >>,
          warnings |-> << >>, errors |-> << NotEnabled >>]
    ELSE preview_sync_DefaultToPulsar(envs, rs, rp, pul, tenant, namespace, direction)

(* RbacSyncService.preview_sync; direction = None takes the environment's mode *)
preview_sync(envs, rs, rp, pul, tenant, namespace, direction) ==
    LET mode == envs[ActiveEnv].rbac_sync_mode
        dir == IF direction # NoDirection THEN direction
               ELSE IF mode = "sync_to_pulsar" THEN "console_to_pulsar"
               ELSE IF mode = "read_from_pulsar" THEN "pulsar_to_console"
               ELSE NoDirection
        diff == get_diff(get_console_permissions(rs, rp, tenant, namespace),
                         pul[namespace])
    IN  IF dir = NoDirection
        THEN [direction |-> "console_to_pulsar", changes |-> << >>,
              warnings |-> << >>, errors |-> << NotEnabled >>]
        ELSE IF dir = "console_to_pulsar"
        THEN [direction |-> dir,
              changes |->
                ChangesOf(diff.only_in_console,
                    LAMBDA role : SyncChange("add", role, diff.only_in_console[role], "console"))
                \o ChangesOf(diff.only_in_pulsar,
                    LAMBDA role : SyncChange("remove", role, diff.only_in_pulsar[role], "pulsar"))
                \o ChangesOf(diff.different,
                    LAMBDA role : SyncChange("update", role, diff.different[role].console, "console")),
              warnings |-> InOrder(NameOrder, DOMAIN diff.only_in_pulsar),
              errors |-> << >>]
        ELSE [direction |-> dir,
              changes |->
                ChangesOf(diff.only_in_pulsar,
                    LAMBDA role : SyncChange("add", role, diff.only_in_pulsar[role], "pulsar"))
                \o ChangesOf(diff.only_in_console,
                    LAMBDA role : SyncChange("remove", role, diff.only_in_console[role], "console"))
                \o ChangesOf(diff.different,
                    LAMBDA role : SyncChange("update", role, diff.different[role].pulsar, "pulsar")),
              warnings |-> InOrder(NameOrder, DOMAIN diff.only_in_console),
              errors |-> << >>]

has_changes(preview) == Len(preview.changes) > 0
can_proceed(preview) == Len(preview.errors) = 0

(* a vocabulary that takes the console's read as well *)
valid_actions_WithRead ==
    {"produce", "consume", "functions", "packages", "sinks", "sources", "read"}

(* PulsarAuthService.grant_namespace_permission: the actions Pulsar accepts *)
valid_actions == {"produce", "consume", "functions", "packages", "sinks", "sources"}

(* an apply step that grants on add only and leaves an update unwritten *)
apply_to_pulsar_SkipUpdate(st, change, namespace) ==
    IF change.action = "add"
    THEN IF Range(change.permissions) \ valid_actions # {}
         THEN [st EXCEPT !.raised = TRUE]
         ELSE [st EXCEPT !.raised = FALSE,
                         !.pulsar[namespace] = Put(@, change.role, change.permissions)]
    ELSE IF change.action = "update"
    THEN [st EXCEPT !.raised = FALSE]
    ELSE [st EXCEPT !.raised = FALSE,
                    !.pulsar[namespace] = Drop(@, change.role)]

(* RbacSyncService._apply_to_pulsar; st.raised tells whether the call raised *)
apply_to_pulsar(st, change, namespace) ==
    IF change.action \in {"add", "update"}
    THEN IF Range(change.permissions) \ valid_actions # {}
         THEN [st EXCEPT !.raised = TRUE]
         ELSE [st EXCEPT !.raised = FALSE,
                         !.pulsar[namespace] = Put(@, change.role, change.permissions)]
    ELSE [st EXCEPT !.raised = FALSE,
                    !.pulsar[namespace] = Drop(@, change.role)]

(* set_console_permission that adds to the grants it finds *)
set_console_permission_NoClear(st, tenant, namespace, role_name, actions) ==
    LET found == get_by_name(st.r, ActiveEnv, role_name)
        id == IF found # {} THEN (CHOOSE r \in found : TRUE).id ELSE NewId(st.r, ActiveEnv, "custom")
        rs == IF found # {} THEN st.r
              ELSE st.r \cup {[id |-> id, environment_id |-> ActiveEnv,
                               name |-> role_name, is_system |-> FALSE]}
        added == { [role_id |-> id, action |-> a, resource_level |-> "namespace",
                    resource_pattern |-> Path(tenant, namespace)] :
                   a \in Range(actions) \cap PermissionAction }
    IN  [st EXCEPT !.raised = FALSE, !.r = rs, !.g = st.g \cup added]

(* RbacSyncService.set_console_permission *)
set_console_permission(st, tenant, namespace, role_name, actions) ==
    LET found == get_by_name(st.r, ActiveEnv, role_name)
        id == IF found # {} THEN (CHOOSE r \in found : TRUE).id ELSE NewId(st.r, ActiveEnv, "custom")
        rs == IF found # {} THEN st.r
              ELSE st.r \cup {[id |-> id, environment_id |-> ActiveEnv,
                               name |-> role_name, is_system |-> FALSE]}
        cleared == delete_by_role_and_resource(st.g, id, "namespace", Path(tenant, namespace))
        added == { [role_id |-> id, action |-> a, resource_level |-> "namespace",
                    resource_pattern |-> Path(tenant, namespace)] :
                   a \in Range(actions) \cap PermissionAction }
    IN  [st EXCEPT !.raised = FALSE, !.r = rs, !.g = cleared \cup added]

(* RbacSyncService.remove_console_permission *)
remove_console_permission(st, tenant, namespace, role_name) ==
    LET found == get_by_name(st.r, ActiveEnv, role_name)
    IN  IF found = {} THEN [st EXCEPT !.raised = FALSE]
        ELSE [st EXCEPT !.raised = FALSE,
                        !.g = delete_by_role_and_resource(
                                  @, (CHOOSE r \in found : TRUE).id,
                                  "namespace", Path(tenant, namespace))]

(* an apply step that moves a grant: it revokes on the cluster what it
   writes to the console *)
apply_to_console_Move(st, change, tenant, namespace) ==
    IF change.action \in {"add", "update"}
    THEN [set_console_permission(st, tenant, namespace, change.role, change.permissions)
            EXCEPT !.pulsar[namespace] = Drop(@, change.role)]
    ELSE remove_console_permission(st, tenant, namespace, change.role)

(* RbacSyncService._apply_to_console *)
apply_to_console(st, change, tenant, namespace) ==
    IF change.action \in {"add", "update"}
    THEN set_console_permission(st, tenant, namespace, change.role, change.permissions)
    ELSE remove_console_permission(st, tenant, namespace, change.role)

(* a loop that gives up at the first change that fails *)
RECURSIVE ApplyLoop_AbortOnFailure(_, _, _, _, _)
ApplyLoop_AbortOnFailure(st, preview, tenant, namespace, n) ==
    IF n = 0 THEN st
    ELSE LET before == ApplyLoop_AbortOnFailure(st, preview, tenant, namespace, n - 1)
             change == preview.changes[n]
             entry == [action |-> change.action, role |-> change.role]
             after == IF preview.direction = "console_to_pulsar"
                      THEN apply_to_pulsar(before, change, namespace)
                      ELSE apply_to_console(before, change, tenant, namespace)
         IN  IF before.failed > 0 THEN before
             ELSE IF after.raised
             THEN [after EXCEPT !.failed = @ + 1, !.errors = Append(@, entry)]
             ELSE [after EXCEPT !.applied = @ + 1, !.details = Append(@, entry)]

(* the loop of sync_namespace over the first n changes of the preview *)
RECURSIVE ApplyLoop(_, _, _, _, _)
ApplyLoop(st, preview, tenant, namespace, n) ==
    IF n = 0 THEN st
    ELSE LET change == preview.changes[n]
             entry == [action |-> change.action, role |-> change.role]
             Count(after) ==
                 IF after.raised
                 THEN [after EXCEPT !.failed = @ + 1, !.errors = Append(@, entry)]
                 ELSE [after EXCEPT !.applied = @ + 1, !.details = Append(@, entry)]
             Step(before) ==
                 With(IF preview.direction = "console_to_pulsar"
                      THEN apply_to_pulsar(before, change, namespace)
                      ELSE apply_to_console(before, change, tenant, namespace),
                      Count)
         IN  With(ApplyLoop(st, preview, tenant, namespace, n - 1), Step)

SyncResult(success, applied, failed, details, errors) ==
    [success |-> success, changes_applied |-> applied, changes_failed |-> failed,
     details |-> details, errors |-> errors]

(* RbacSyncService.sync_namespace: the stores and the result it leaves *)
sync_namespace(envs, rs, rp, pul, tenant, namespace, direction, dry_run) ==
    LET start == [pulsar |-> pul, r |-> rs, g |-> rp, raised |-> FALSE,
                  applied |-> 0, failed |-> 0, details |-> << >>, errors |-> << >>]
        same(result) == [pulsar |-> pul, r |-> rs, g |-> rp, result |-> result]
        Applied(end) ==
            [pulsar |-> end.pulsar, r |-> end.r, g |-> end.g,
             result |-> SyncResult(end.failed = 0, end.applied, end.failed,
                                   end.details, end.errors)]
        Sync(preview) ==
            IF ~ can_proceed(preview)
            THEN same(SyncResult(FALSE, 0, 0, << >>, preview.errors))
            ELSE IF dry_run
            THEN same(SyncResult(TRUE, 0, 0,
                                 << [msg |-> "Dry run", n |-> Len(preview.changes)] >>, << >>))
            ELSE IF ~ has_changes(preview)
            THEN same(SyncResult(TRUE, 0, 0, << [msg |-> "No changes needed"] >>, << >>))
            ELSE With(ApplyLoop(start, preview, tenant, namespace, Len(preview.changes)),
                      Applied)
    IN  With(preview_sync(envs, rs, rp, pul, tenant, namespace, direction), Sync)

(* PulsarAdminService.get_namespaces: the full names "tenant/namespace" *)
get_namespaces(tenant) ==
    [ i \in DOMAIN NamespaceOrder |-> Path(tenant, NamespaceOrder[i]) ]

(* ns_full.split("/")[-1] if "/" in ns_full else ns_full *)
LastSegment(ns_full) ==
    LET slashes == { i \in DOMAIN ns_full : ns_full[i] = "/" }
    IN  IF slashes = {} THEN ns_full
        ELSE SubSeq(ns_full, (CHOOSE i \in slashes : \A j \in slashes : j <= i) + 1,
                    Len(ns_full))

(* a loop that stops at the first namespace whose sync did not succeed *)
RECURSIVE SyncAllLoop_StopAtFailure(_, _, _, _, _, _)
SyncAllLoop_StopAtFailure(envs, st, tenant, direction, dry_run, n) ==
    IF n = 0 THEN st
    ELSE LET before == SyncAllLoop_StopAtFailure(envs, st, tenant, direction, dry_run, n - 1)
             namespace == LastSegment(get_namespaces(tenant)[n])
             out == sync_namespace(envs, before.r, before.g, before.pulsar,
                                   tenant, namespace, direction, dry_run)
         IN  IF \E k \in DOMAIN before.results : ~ before.results[k].success
             THEN before
             ELSE [pulsar |-> out.pulsar, r |-> out.r, g |-> out.g,
                   results |-> Put(before.results, namespace, out.result)]

(* the loop of sync_all_namespaces over the first n namespaces of the list *)
RECURSIVE SyncAllLoop(_, _, _, _, _, _)
SyncAllLoop(envs, st, tenant, direction, dry_run, n) ==
    IF n = 0 THEN st
    ELSE LET namespace == LastSegment(get_namespaces(tenant)[n])
             Step(before) ==
                 LET Collect(out) ==
                         [pulsar |-> out.pulsar, r |-> out.r, g |-> out.g,
                          results |-> Put(before.results, namespace, out.result)]
                 IN  With(sync_namespace(envs, before.r, before.g, before.pulsar,
                                         tenant, namespace, direction, dry_run),
                          Collect)
         IN  With(SyncAllLoop(envs, st, tenant, direction, dry_run, n - 1), Step)

(* the message of the "_error" entry, word by word *)
GetNamespacesFailed == << "Failed", "to", "get", "namespaces" >>

(* RbacSyncService.sync_all_namespaces; unreachable: get_namespaces raises *)
sync_all_namespaces(envs, rs, rp, pul, tenant, direction, dry_run, unreachable) ==
    IF unreachable
    THEN [pulsar |-> pul, r |-> rs, g |-> rp,
          results |-> [ k \in {Str_error} |->
                          SyncResult(FALSE, 0, 0, << >>, << GetNamespacesFailed >>) ]]
    ELSE SyncAllLoop(envs, [pulsar |-> pul, r |-> rs, g |-> rp, results |-> EmptyMap],
                     tenant, direction, dry_run, Len(get_namespaces(tenant)))

----------------------------------------------------------------------------
(* The sync engine when the cluster cannot be read *)

NotRaised == "None"           \* the call returned a value

(* preview_sync with a handler around get_diff that reports the failure *)
preview_sync_outcome_Caught(envs, rs, rp, pul, tenant, namespace, direction, unreachable) ==
    IF unreachable
    THEN [raised |-> NotRaised,
          preview |-> [direction |-> "console_to_pulsar", changes |-> << >>,
                       warnings |-> << >>, errors |-> << << "Pulsar", "unreachable" >> >>]]
    ELSE [raised |-> NotRaised,
          preview |-> preview_sync(envs, rs, rp, pul, tenant, namespace, direction)]

(* RbacSyncService.preview_sync when PulsarAuthService.get_namespace_permissions
   may raise (unreachable): the mode test returns before get_diff is called,
   and get_diff calls the read without a handler *)
preview_sync_outcome(envs, rs, rp, pul, tenant, namespace, direction, unreachable) ==
    IF /\ direction = NoDirection
       /\ envs[ActiveEnv].rbac_sync_mode \notin {"sync_to_pulsar", "read_from_pulsar"}
    THEN [raised |-> NotRaised,
          preview |-> preview_sync(envs, rs, rp, pul, tenant, namespace, direction)]
    ELSE IF unreachable
    THEN [raised |-> "PulsarConnectionError"]
    ELSE [raised |-> NotRaised,
          preview |-> preview_sync(envs, rs, rp, pul, tenant, namespace, direction)]

(* RbacSyncService.sync_namespace when the read may raise: preview_sync is
   awaited without a handler, before anything is applied *)
sync_namespace_outcome(envs, rs, rp, pul, tenant, namespace, direction, dry_run, unreachable) ==
    LET Sync(p) ==
            IF p.raised # NotRaised
            THEN [raised |-> p.raised, pulsar |-> pul, r |-> rs, g |-> rp]
            ELSE IF ~ can_proceed(p.preview)
            THEN [raised |-> NotRaised, pulsar |-> pul, r |-> rs, g |-> rp,
                  result |-> SyncResult(FALSE, 0, 0, << >>, p.preview.errors)]
            ELSE With(sync_namespace(envs, rs, rp, pul, tenant, namespace, direction, dry_run),
                      LAMBDA out : [raised |-> NotRaised, pulsar |-> out.pulsar,
                                    r |-> out.r, g |-> out.g, result |-> out.result])
    IN  With(preview_sync_outcome(envs, rs, rp, pul, tenant, namespace, direction, unreachable),
             Sync)

----------------------------------------------------------------------------
(* Route guard (api/deps.py) *)

(* the rows select(UserRole).join(Role) returns for the user and the role
   name superuser, over all environments *)
SuperuserRows(user_id) ==
    { x \in BagToSet(user_roles) :
        /\ x.user_id = user_id
        /\ \E r \in roles : r.id = x.role_id /\ r.name = "superuser" }

(* a guard whose superuser test looks at the active environment only *)
deps_has_superuser_access_ActiveOnly(user_id) ==
    IF \E x \in SuperuserRows(user_id) :
          \E r \in roles : r.id = x.role_id /\ r.environment_id = ActiveEnv
    THEN "True" ELSE "False"

(* deps.has_superuser_access: scalar_one_or_none() is not None; more than
   one row makes scalar_one_or_none raise *)
deps_has_superuser_access(user_id) ==
    IF SuperuserRows(user_id) = {} THEN "False"
    ELSE IF Cardinality(SuperuserRows(user_id)) = 1
            /\ \A x \in SuperuserRows(user_id) : user_roles[x] = 1
         THEN "True"
         ELSE "MultipleResultsFound"

(* require_permission(action, resource_level, resource_path) for an active
   user: "admit", or the error the dependency raises *)
require_permission(user_id, action, resource_level, resource_path) ==
    IF deps_has_superuser_access(user_id) = "MultipleResultsFound"
    THEN "MultipleResultsFound"
    ELSE IF deps_has_superuser_access(user_id) = "True" THEN "admit"
    ELSE IF ActiveEnv \notin DOMAIN environments THEN "400"
    ELSE IF ~ environments[ActiveEnv].rbac_enabled THEN "admit"
    ELSE IF action \notin PermissionAction \/ resource_level \notin ResourceLevel
         THEN "ValueError"
    ELSE IF repo_check_permission(user_id, ActiveEnv, action,
                                  resource_level, resource_path)
         THEN "admit"
         ELSE "403"

----------------------------------------------------------------------------
(* Inputs of the calls *)

RoleNames == {"viewer", "dev"}             \* names an administrator types
AssignableNames == {"superuser", "custom"}              \* roles that get assigned
GrantPatterns == {None, Star, Str_a \o Slash \o Star, Path(Str_a, Str_n)}
PulsarRoles == {"viewer", "dev"}                        \* roles granted on the cluster
PulsarActionLists == { <<"functions">>, <<"functions", "produce">>,
                       <<"produce", "functions">> }
CheckUsers == UserIds \cup {Ghost}
CheckEnvs == Envs \cup {NoEnv}
Directions == {"console_to_pulsar", "pulsar_to_console"}
SyncModes == {"console_only", "sync_to_pulsar", "read_from_pulsar"}
ConsoleActions == {"read", "functions"}     \* namespace actions granted in the console
(* action lists the cluster may hold for a role, the empty one included *)
ClusterActionLists == { << >>, <<"functions">>, <<"produce", "functions">> }

CustomRoles == { r \in roles : ~ r.is_system }
Assignments == BagCardinality(user_roles)

(* grants of the roles that were not seeded *)
AdminGrants == { g \in role_permissions : \E r \in CustomRoles : g.role_id = r.id }

dbvars == <<permissions, environments, users, roles, role_permissions, user_roles,
            oidc_providers>>

----------------------------------------------------------------------------
(* Environments and seeding *)

(* EnvironmentService.create_environment with the default RBAC settings; the
   first environment becomes the active one *)
CreateEnvironment(name) ==
    /\ name \notin DOMAIN environments
    /\ name = ActiveEnv \/ ActiveEnv \in DOMAIN environments
    /\ environments' = Put(environments, name,
                           [rbac_enabled |-> FALSE, rbac_sync_mode |-> "console_only"])
    /\ resp' = [op |-> "create_environment"]
    /\ UNCHANGED <<permissions, users, oidc_providers,
                   settings, sync_task, login_tasks, roles, role_permissions, user_roles, pulsar>>

(* EnvironmentService.update_environment setting rbac_sync_mode *)
UpdateEnvironment(name, rbac_sync_mode) ==
    /\ name \in DOMAIN environments
    /\ environments' = [environments EXCEPT ![name].rbac_sync_mode = rbac_sync_mode]
    /\ resp' = [op |-> "update_environment"]
    /\ UNCHANGED <<permissions, users, oidc_providers,
                   settings, sync_task, login_tasks, roles, role_permissions, user_roles, pulsar>>

(* lifespan startup: SeedService.seed_all_environments *)
Startup ==
    LET seeded == SeedService_seed_permissions(permissions)
        st == SeedEnvsLoop([r |-> roles, g |-> role_permissions],
                           DOMAIN environments, seeded, Len(EnvOrder))
    IN  /\ permissions' = seeded.perms
        /\ roles' = st.r
        /\ role_permissions' = st.g
        /\ resp' = [op |-> "seed_all_environments",
                    inserted |-> Len(seeded.perms) - Len(permissions),
                    permission_map |-> seeded.map]
        /\ UNCHANGED <<environments, users, oidc_providers,
                       settings, sync_task, login_tasks, user_roles, pulsar>>

(* RBACService.enable_rbac: sets the flag and runs seed_rbac_data *)
EnableRbac(environment_id) ==
    LET seeded == seed_permissions(permissions)
        st == seed_default_roles([r |-> roles, g |-> role_permissions],
                                 environment_id, seeded)
    IN  /\ environment_id \in DOMAIN environments
        /\ environments' = [environments EXCEPT ![environment_id].rbac_enabled = TRUE]
        /\ permissions' = seeded.perms
        /\ roles' = st.r
        /\ role_permissions' = st.g
        /\ resp' = [op |-> "enable_rbac",
                    inserted |-> Len(seeded.perms) - Len(permissions),
                    permission_map |-> seeded.map]
        /\ UNCHANGED <<users, oidc_providers, settings, sync_task, login_tasks, user_roles, pulsar>>

(* RBACService.disable_rbac *)
DisableRbac(environment_id) ==
    /\ environment_id \in DOMAIN environments
    /\ environments' = [environments EXCEPT ![environment_id].rbac_enabled = FALSE]
    /\ resp' = [op |-> "disable_rbac"]
    /\ UNCHANGED <<permissions, users, oidc_providers,
                   settings, sync_task, login_tasks, roles, role_permissions, user_roles, pulsar>>

(* Role and assignment store *)

(* create_role without the lookup of the name *)
CreateRole_NoNameCheck(environment_id, name) ==
    /\ environment_id \in DOMAIN environments
    /\ Cardinality(CustomRoles) < MaxCustomRoles
    /\ roles' = roles \cup {[id |-> NewId(roles, environment_id, "custom"),
                              environment_id |-> environment_id,
                              name |-> name, is_system |-> FALSE]}
    /\ resp' = [op |-> "create_role", result |-> "ok"]
    /\ UNCHANGED <<permissions, environments, users, oidc_providers,
                   settings, sync_task, login_tasks, role_permissions, user_roles, pulsar>>

(* RBACService.create_role *)
CreateRole(environment_id, name) ==
    /\ environment_id \in DOMAIN environments
    /\ IF get_by_name(roles, environment_id, name) # {}
       THEN /\ resp' = [op |-> "create_role", result |-> "Conflict"]
            /\ UNCHANGED roles
       ELSE /\ Cardinality(CustomRoles) < MaxCustomRoles
            /\ roles' = roles \cup {[id |-> NewId(roles, environment_id, "custom"), environment_id |-> environment_id,
                                     name |-> name, is_system |-> FALSE]}
            /\ resp' = [op |-> "create_role", result |-> "ok"]
    /\ UNCHANGED <<permissions, environments, users, oidc_providers,
                   settings, sync_task, login_tasks, role_permissions, user_roles, pulsar>>

(* update_role without the is_system check *)
UpdateRole_NoSystemCheck(role_id, name) ==
    LET found == get_by_id(role_id)
        role == CHOOSE r \in found : TRUE
    IN  /\ IF found = {}
           THEN /\ resp' = [op |-> "update_role", result |-> "NotFound"]
                /\ UNCHANGED roles
           ELSE IF name # role.name /\ get_by_name(roles, role.environment_id, name) # {}
           THEN /\ resp' = [op |-> "update_role", result |-> "Conflict"]
                /\ UNCHANGED roles
           ELSE /\ roles' = (roles \ {role}) \cup {[role EXCEPT !.name = name]}
                /\ resp' = [op |-> "update_role", result |-> "ok"]
        /\ UNCHANGED <<permissions, environments, users, oidc_providers,
                       settings, sync_task, login_tasks, role_permissions, user_roles, pulsar>>

(* RBACService.update_role with a name: None for a role that is not found
   ("NotFound"), ValueError "Cannot rename system roles" ("Forbidden"),
   ValueError "... already exists" ("Conflict") *)
UpdateRole(role_id, name) ==
    LET found == get_by_id(role_id)
        role == CHOOSE r \in found : TRUE
    IN  /\ IF found = {}
           THEN /\ resp' = [op |-> "update_role", result |-> "NotFound"]
                /\ UNCHANGED roles
           ELSE IF role.is_system /\ name # role.name
           THEN /\ resp' = [op |-> "update_role", result |-> "Forbidden"]
                /\ UNCHANGED roles
           ELSE IF name # role.name /\ get_by_name(roles, role.environment_id, name) # {}
           THEN /\ resp' = [op |-> "update_role", result |-> "Conflict"]
                /\ UNCHANGED roles
           ELSE /\ roles' = (roles \ {role}) \cup {[role EXCEPT !.name = name]}
                /\ resp' = [op |-> "update_role", result |-> "ok"]
        /\ UNCHANGED <<permissions, environments, users, oidc_providers,
                       settings, sync_task, login_tasks, role_permissions, user_roles, pulsar>>

(* RoleRepository.delete_non_system: the rows left and whether one was deleted *)
delete_non_system(role_id) ==
    LET hit == { r \in roles : r.id = role_id /\ ~ r.is_system }
    IN  [deleted |-> hit # {}, r |-> roles \ hit]

(* RBACService.delete_role: the bool it returns *)
delete_role(role_id) == IF delete_non_system(role_id).deleted THEN "True" ELSE "False"

(* RBACService.delete_role *)
DeleteRole(role_id) ==
    LET res == delete_non_system(role_id)
    IN  /\ roles' = res.r
        /\ role_permissions' = IF res.deleted THEN CascadeGrants(role_permissions, role_id)
                               ELSE role_permissions
        /\ user_roles' = IF res.deleted THEN CascadeAssignments(user_roles, role_id)
                         ELSE user_roles
        /\ resp' = [op |-> "delete_role",
                    result |-> delete_role(role_id)]
        /\ UNCHANGED <<permissions, environments, users, oidc_providers,
                       settings, sync_task, login_tasks, pulsar>>

(* assign_role_to_user without the has_role check *)
AssignRoleToUser_NoCheck(user_id, role_id) ==
    /\ Assignments < MaxAssignments
    /\ user_roles' = user_roles (+) SetToBag({UR(user_id, role_id)})
    /\ resp' = [op |-> "assign_role_to_user", result |-> "ok"]
    /\ UNCHANGED <<permissions, environments, users, oidc_providers,
                   settings, sync_task, login_tasks, roles, role_permissions, pulsar>>

(* RBACService.assign_role_to_user *)
AssignRoleToUser(user_id, role_id) ==
    /\ IF has_role(user_id, role_id)
       THEN /\ resp' = [op |-> "assign_role_to_user", result |-> "Conflict"]
            /\ UNCHANGED user_roles
       ELSE /\ Assignments < MaxAssignments
            /\ user_roles' = user_roles (+) SetToBag({UR(user_id, role_id)})
            /\ resp' = [op |-> "assign_role_to_user", result |-> "ok"]
    /\ UNCHANGED <<permissions, environments, users, oidc_providers,
                   settings, sync_task, login_tasks, roles, role_permissions, pulsar>>

(* RBACService.remove_role_from_user *)
RemoveRoleFromUser(user_id, role_id) ==
    /\ user_roles' = [ x \in BagToSet(user_roles) \ {UR(user_id, role_id)} |-> user_roles[x] ]
    /\ resp' = [op |-> "remove_role_from_user",
                result |-> IF has_role(user_id, role_id) THEN "True" ELSE "False"]
    /\ UNCHANGED <<permissions, environments, users, oidc_providers,
                   settings, sync_task, login_tasks, roles, role_permissions, pulsar>>

(* RBACService.add_permission_to_role *)
AddPermissionToRole(role_id, permission_id, resource_pattern) ==
    LET g == [role_id |-> role_id,
              action |-> permissions[permission_id].action,
              resource_level |-> permissions[permission_id].resource_level,
              resource_pattern |-> resource_pattern]
    IN  /\ permission_id \in DOMAIN permissions
        /\ IF g \in role_permissions
           THEN /\ resp' = [op |-> "add_permission_to_role", result |-> "Conflict"]
                /\ UNCHANGED role_permissions
           ELSE /\ Cardinality(AdminGrants) < MaxGrants
                /\ role_permissions' = role_permissions \cup {g}
                /\ resp' = [op |-> "add_permission_to_role", result |-> "ok"]
        /\ UNCHANGED <<permissions, environments, users, oidc_providers,
                       settings, sync_task, login_tasks, roles, user_roles, pulsar>>

(* RBACService.remove_permission_from_role *)
RemovePermissionFromRole(role_id, permission_id, resource_pattern) ==
    LET g == [role_id |-> role_id,
              action |-> permissions[permission_id].action,
              resource_level |-> permissions[permission_id].resource_level,
              resource_pattern |-> resource_pattern]
    IN  /\ permission_id \in DOMAIN permissions
        /\ role_permissions' = role_permissions \ {g}
        /\ resp' = [op |-> "remove_permission_from_role",
                    result |-> IF g \in role_permissions THEN "True" ELSE "False"]
        /\ UNCHANGED <<permissions, environments, users, oidc_providers,
                       settings, sync_task, login_tasks, roles, user_roles, pulsar>>

----------------------------------------------------------------------------
(* The cluster's permission store and the sync engine's calls *)

NoTask == [state |-> "idle"]   \* no sync is running

(* PulsarAuthService.grant_namespace_permission called through the console *)
GrantNamespacePermission(namespace, role, actions) ==
    /\ IF Range(actions) \ valid_actions # {}
       THEN /\ resp' = [op |-> "grant_namespace_permission", result |-> "ValueError"]
            /\ UNCHANGED pulsar
       ELSE /\ pulsar' = [pulsar EXCEPT ![namespace] = Put(@, role, actions)]
            /\ resp' = [op |-> "grant_namespace_permission", result |-> "ok"]
    /\ UNCHANGED <<dbvars, settings, sync_task, login_tasks>>

(* PulsarAuthService.revoke_namespace_permission called through the console *)
RevokeNamespacePermission(namespace, role) ==
    /\ role \in DOMAIN pulsar[namespace]
    /\ pulsar' = [pulsar EXCEPT ![namespace] = Drop(@, role)]
    /\ resp' = [op |-> "revoke_namespace_permission", result |-> "ok"]
    /\ UNCHANGED <<dbvars, settings, sync_task, login_tasks>>

(* a sync that applies its changes whether or not dry_run is set *)
SyncNamespace_IgnoreDryRun(namespace, direction, dry_run) ==
    \E out \in { sync_namespace(environments, roles, role_permissions, pulsar,
                                 Tenant, namespace, direction, FALSE) } :
        /\ ActiveEnv \in DOMAIN environments
        /\ pulsar' = out.pulsar
        /\ roles' = out.r
        /\ role_permissions' = out.g
        /\ resp' = [op |-> "sync_namespace", namespace |-> namespace,
                    direction |-> direction, dry_run |-> dry_run, result |-> out.result]
        /\ UNCHANGED <<permissions, environments, users, oidc_providers,
                       settings, sync_task, login_tasks, user_roles>>

(* POST rbac-sync: RbacSyncService.sync_namespace *)
SyncNamespace(namespace, direction, dry_run) ==
    \E out \in { sync_namespace(environments, roles, role_permissions, pulsar,
                                 Tenant, namespace, direction, dry_run) } :
        /\ ActiveEnv \in DOMAIN environments
        /\ pulsar' = out.pulsar
        /\ roles' = out.r
        /\ role_permissions' = out.g
        /\ resp' = [op |-> "sync_namespace", namespace |-> namespace,
                    direction |-> direction, dry_run |-> dry_run, result |-> out.result]
        /\ UNCHANGED <<permissions, environments, users, oidc_providers,
                       settings, sync_task, login_tasks, user_roles>>

(* RbacSyncService.sync_all_namespaces for the tenant *)
SyncAllNamespaces(direction, dry_run, unreachable) ==
    \E out \in { sync_all_namespaces(environments, roles, role_permissions, pulsar,
                                      Tenant, direction, dry_run, unreachable) } :
        /\ ActiveEnv \in DOMAIN environments
        /\ pulsar' = out.pulsar
        /\ roles' = out.r
        /\ role_permissions' = out.g
        /\ resp' = [op |-> "sync_all_namespaces", direction |-> direction,
                    dry_run |-> dry_run, result |-> out.results]
        /\ UNCHANGED <<permissions, environments, users, oidc_providers,
                       settings, sync_task, login_tasks, user_roles>>

(* GET rbac-sync preview: RbacSyncService.preview_sync; unreachable: the
   cluster does not answer the read *)
PreviewSync(namespace, direction, unreachable) ==
    \E out \in { preview_sync_outcome(environments, roles, role_permissions, pulsar,
                                      Tenant, namespace, direction, unreachable) } :
        /\ ActiveEnv \in DOMAIN environments
        /\ resp' = [op |-> "preview_sync", namespace |-> namespace,
                    direction |-> direction, unreachable |-> unreachable, out |-> out]
        /\ UNCHANGED <<dbvars, settings, sync_task, login_tasks, pulsar>>

(* POST rbac-sync while the cluster may not answer the read *)
SyncNamespaceOrRaise(namespace, direction, dry_run, unreachable) ==
    \E out \in { sync_namespace_outcome(environments, roles, role_permissions, pulsar,
                                        Tenant, namespace, direction, dry_run,
                                        unreachable) } :
        /\ ActiveEnv \in DOMAIN environments
        /\ pulsar' = out.pulsar
        /\ roles' = out.r
        /\ role_permissions' = out.g
        /\ resp' = [op |-> "sync_namespace_or_raise", namespace |-> namespace,
                    direction |-> direction, dry_run |-> dry_run,
                    unreachable |-> unreachable,
                    out |-> IF out.raised # NotRaised THEN [raised |-> out.raised]
                            ELSE [raised |-> NotRaised, result |-> out.result]]
        /\ UNCHANGED <<permissions, environments, users, oidc_providers,
                       settings, sync_task, login_tasks, user_roles>>

(* sync_namespace up to its first apply call: the preview is computed from
   the two stores as they are now and kept by the running call *)
SyncStart(namespace, direction) ==
    \E preview \in { preview_sync(environments, roles, role_permissions, pulsar,
                                  Tenant, namespace, direction) } :
        /\ sync_task.state = "idle"
        /\ ActiveEnv \in DOMAIN environments
        /\ can_proceed(preview)
        /\ has_changes(preview)
        /\ sync_task' = [state |-> "applying", namespace |-> namespace,
                         preview |-> preview, n |-> 0, applied |-> 0, failed |-> 0,
                         details |-> << >>, errors |-> << >>]
        /\ resp' = [op |-> "sync_start", namespace |-> namespace,
                    direction |-> preview.direction]
        /\ UNCHANGED <<dbvars, settings, login_tasks, pulsar>>

(* the entry the target side holds for a role, as a list of at most one *)
TargetEntry(direction, namespace, role) ==
    IF direction = "console_to_pulsar"
    THEN IF role \in DOMAIN pulsar[namespace] THEN << pulsar[namespace][role] >> ELSE << >>
    ELSE LET perms == get_console_permissions(roles, role_permissions, Tenant, namespace)
         IN  IF role \in DOMAIN perms THEN << perms[role] >> ELSE << >>

(* an iteration that takes its change from a diff computed again *)
SyncApplyNext_Recompute ==
    /\ sync_task.state = "applying"
    /\ LET t == sync_task
           again == preview_sync(environments, roles, role_permissions, pulsar,
                                 Tenant, t.namespace, t.preview.direction)
           change == IF has_changes(again) THEN again.changes[1]
                     ELSE t.preview.changes[t.n + 1]
           start == [pulsar |-> pulsar, r |-> roles, g |-> role_permissions,
                     raised |-> FALSE, applied |-> t.applied, failed |-> t.failed,
                     details |-> t.details, errors |-> t.errors]
       IN  \E out \in { ApplyLoop(start, [t.preview EXCEPT !.changes = << change >>],
                                  Tenant, t.namespace, 1) } :
              /\ pulsar' = out.pulsar
              /\ roles' = out.r
              /\ role_permissions' = out.g
              /\ sync_task' = IF t.n + 1 = Len(t.preview.changes) THEN NoTask
                              ELSE [t EXCEPT !.n = @ + 1,
                                             !.applied = out.applied, !.failed = out.failed,
                                             !.details = out.details, !.errors = out.errors]
              /\ resp' = [op |-> "sync_apply", namespace |-> t.namespace,
                          direction |-> t.preview.direction, change |-> change,
                          raised |-> out.raised,
                          before |-> TargetEntry(t.preview.direction, t.namespace, change.role),
                          done |-> t.n + 1 = Len(t.preview.changes),
                          result |-> SyncResult(out.failed = 0, out.applied, out.failed,
                                                out.details, out.errors)]
    /\ UNCHANGED <<permissions, environments, users, oidc_providers,
                   settings, login_tasks, user_roles>>

(* one iteration of the loop of sync_namespace: the next change of the kept
   preview is applied to the target as it is now; after the last change the
   call returns its SyncResult.  resp.before is the target's entry for the
   role just before the step *)
SyncApplyNext ==
    /\ sync_task.state = "applying"
    /\ LET t == sync_task
           change == t.preview.changes[t.n + 1]
           start == [pulsar |-> pulsar, r |-> roles, g |-> role_permissions,
                     raised |-> FALSE, applied |-> t.applied, failed |-> t.failed,
                     details |-> t.details, errors |-> t.errors]
       IN  \E out \in { ApplyLoop(start, [t.preview EXCEPT !.changes = << change >>],
                                  Tenant, t.namespace, 1) } :
              /\ pulsar' = out.pulsar
              /\ roles' = out.r
              /\ role_permissions' = out.g
              /\ sync_task' = IF t.n + 1 = Len(t.preview.changes) THEN NoTask
                              ELSE [t EXCEPT !.n = @ + 1,
                                             !.applied = out.applied, !.failed = out.failed,
                                             !.details = out.details, !.errors = out.errors]
              /\ resp' = [op |-> "sync_apply", namespace |-> t.namespace,
                          direction |-> t.preview.direction, change |-> change,
                          raised |-> out.raised,
                          before |-> TargetEntry(t.preview.direction, t.namespace, change.role),
                          done |-> t.n + 1 = Len(t.preview.changes),
                          result |-> SyncResult(out.failed = 0, out.applied, out.failed,
                                                out.details, out.errors)]
    /\ UNCHANGED <<permissions, environments, users, oidc_providers,
                   settings, login_tasks, user_roles>>

----------------------------------------------------------------------------
(* OIDC login: admin flag and group reconciliation (AuthService) *)

Groups == {"ops", "devs"}     \* groups the identity provider may report
NoName == ""                  \* default_role_name that is not set
NoEnvironment == "None"       \* environment_id = None: the global login

(* settings.oidc_admin_groups_list and settings.oidc_sync_roles_on_login
   when the process environment sets neither *)
DefaultSettings == [oidc_admin_groups_list |-> {}, oidc_sync_roles_on_login |-> TRUE]

(* the settings a deployment may run with *)
SettingsChoices ==
    { DefaultSettings,
      [oidc_admin_groups_list |-> {"devs"}, oidc_sync_roles_on_login |-> FALSE] }

(* group_role_mappings an administrator may store: none, or one whose
   second name matches no role *)
MappingChoices ==
    { EmptyMap,
      [ g \in Groups |-> IF g = "ops" THEN "operator" ELSE "auditor" ] }

(* rows of oidc_providers for one environment *)
ProviderChoices(environment_id) ==
    [environment_id : {environment_id},
     default_role_name : {NoName, "viewer"},
     group_role_mappings : MappingChoices,
     admin_groups : {{"ops"}},
     sync_roles_on_login : BOOLEAN]

(* OIDCProviderRepository.get_for_environment: the row, or none *)
get_for_environment(environment_id) ==
    IF environment_id \in DOMAIN oidc_providers
    THEN {oidc_providers[environment_id]} ELSE {}

(* AuthService._check_admin_groups *)
check_admin_groups(groups, provider) ==
    \/ \E group \in groups : group \in settings.oidc_admin_groups_list
    \/ \E p \in provider : \E group \in groups : group \in p.admin_groups

(* _should_sync_roles that always answers True *)
should_sync_roles_Always(provider) == TRUE

(* AuthService._should_sync_roles *)
should_sync_roles(provider) ==
    IF provider # {}
    THEN \A p \in provider : p.sync_roles_on_login
    ELSE settings.oidc_sync_roles_on_login

(* find_or_create_from_oidc that never takes a new user for the first *)
find_or_create_from_oidc_NeverFirst(us, subject) ==
    IF subject \in DOMAIN us
    THEN [users |-> us, created |-> FALSE, is_first_user |-> FALSE]
    ELSE [users |-> Put(us, subject, [is_global_admin |-> FALSE]),
          created |-> TRUE, is_first_user |-> FALSE]

(* UserRepository.find_or_create_from_oidc: the users table after the call,
   created and is_first_user *)
find_or_create_from_oidc(us, subject) ==
    IF subject \in DOMAIN us
    THEN [users |-> us, created |-> FALSE, is_first_user |-> FALSE]
    ELSE LET is_first_user == Cardinality(DOMAIN us) = 0
         IN  [users |-> Put(us, subject, [is_global_admin |-> is_first_user]),
              created |-> TRUE, is_first_user |-> is_first_user]

(* SeedService.get_superuser_role_id *)
get_superuser_role_id(rs, environment_id) ==
    { r.id : r \in get_by_name(rs, environment_id, "superuser") }

(* SeedService.assign_user_to_superuser_role_all_environments: one row per
   environment that has a superuser role the user does not hold yet *)
assign_user_to_superuser_role_all_environments(ur, rs, envs, user_id) ==
    ur (+) SetToBag({ UR(user_id, id) :
                      id \in { i \in UNION { get_superuser_role_id(rs, e) : e \in DOMAIN envs } :
                               ~ BagIn(UR(user_id, i), ur) } })

(* the rows of user_roles of one user that join a role of one environment *)
UserRolesIn(ur, rs, user_id, environment_id) ==
    { x \in BagToSet(ur) :
        /\ x.user_id = user_id
        /\ \E r \in rs : r.id = x.role_id /\ r.environment_id = environment_id }

(* _remove_user_roles_for_environment that deletes nothing *)
remove_user_roles_for_environment_Keep(ur, rs, user_id, environment_id) == ur

(* AuthService._remove_user_roles_for_environment *)
remove_user_roles_for_environment(ur, rs, user_id, environment_id) ==
    LET env_role_ids == { r.id : r \in { x \in rs : x.environment_id = environment_id } }
        keep == { x \in BagToSet(ur) : ~ (x.user_id = user_id /\ x.role_id \in env_role_ids) }
    IN  [ x \in keep |-> ur[x] ]

(* the target names without the default role *)
TargetRoleNames_NoDefault(p, groups) ==
    { p.group_role_mappings[group] : group \in groups \cap DOMAIN p.group_role_mappings }

(* the names the groups map to, and the default role if configured *)
TargetRoleNames(p, groups) ==
    { p.group_role_mappings[group] : group \in groups \cap DOMAIN p.group_role_mappings }
    \cup (IF p.default_role_name # NoName THEN {p.default_role_name} ELSE {})

(* _apply_group_role_mappings that removes whatever sync_roles_on_login says *)
apply_group_role_mappings_AlwaysRemove(ur, rs, user_id, groups, provider) ==
    IF provider = {} THEN ur
    ELSE LET p == CHOOSE x \in provider : TRUE
             target_role_names == TargetRoleNames(p, groups)
             target_roles == { r \in rs : /\ r.environment_id = p.environment_id
                                          /\ r.name \in target_role_names }
             current_user_roles == UserRolesIn(ur, rs, user_id, p.environment_id)
             added == ur (+) SetToBag({ UR(user_id, r.id) : r \in
                          { t \in target_roles :
                              t.id \notin { x.role_id : x \in current_user_roles } } })
             gone == { x \in current_user_roles :
                         x.role_id \notin { r.id : r \in target_roles } }
         IN  IF DOMAIN p.group_role_mappings = {} THEN ur
             ELSE [ x \in BagToSet(added) \ gone |-> added[x] ]

(* AuthService._apply_group_role_mappings: user_roles after the call *)
apply_group_role_mappings(ur, rs, user_id, groups, provider) ==
    IF provider = {} THEN ur
    ELSE LET p == CHOOSE x \in provider : TRUE
             environment_id == p.environment_id
             target_role_names == TargetRoleNames(p, groups)
             target_roles == { r \in rs : /\ r.environment_id = environment_id
                                          /\ r.name \in target_role_names }
             current_user_roles == UserRolesIn(ur, rs, user_id, environment_id)
             current_role_ids == { x.role_id : x \in current_user_roles }
             added == ur (+) SetToBag({ UR(user_id, r.id) : r \in
                          { t \in target_roles : t.id \notin current_role_ids } })
             target_role_ids == { r.id : r \in target_roles }
             gone == { x \in current_user_roles : x.role_id \notin target_role_ids }
         IN  IF DOMAIN p.group_role_mappings = {} THEN ur
             ELSE IF target_role_names = {}
             THEN IF p.sync_roles_on_login
                  THEN remove_user_roles_for_environment(ur, rs, user_id, environment_id)
                  ELSE ur
             ELSE IF p.sync_roles_on_login
                  THEN [ x \in BagToSet(added) \ gone |-> added[x] ]
                  ELSE added

(* AuthService.authenticate_oidc: users and user_roles after the login of
   subject with groups at environment_id *)
authenticate_oidc(us, ur, rs, envs, subject, groups, environment_id) ==
    LET provider == IF environment_id # NoEnvironment
                    THEN get_for_environment(environment_id) ELSE {}
        is_admin_from_groups == check_admin_groups(groups, provider)
        found == find_or_create_from_oidc(us, subject)
        user == found.users[subject]
        is_global_admin ==
            IF is_admin_from_groups /\ ~ user.is_global_admin THEN TRUE
            ELSE IF ~ is_admin_from_groups /\ user.is_global_admin /\ ~ found.is_first_user
                 THEN IF should_sync_roles(provider) THEN FALSE ELSE user.is_global_admin
                 ELSE user.is_global_admin
    IN  IF found.is_first_user
        THEN [users |-> found.users,
              user_roles |-> assign_user_to_superuser_role_all_environments(
                                 ur, rs, envs, subject),
              created |-> found.created, is_first_user |-> TRUE]
        ELSE [users |-> Put(found.users, subject, [is_global_admin |-> is_global_admin]),
              user_roles |-> apply_group_role_mappings(ur, rs, subject, groups, provider),
              created |-> found.created, is_first_user |-> FALSE]

(* the OIDC callback: AuthService.authenticate_oidc *)
Login(subject, groups, environment_id) ==
    \E out \in { authenticate_oidc(users, user_roles, roles, environments,
                                   subject, groups, environment_id) } :
        /\ users' = out.users
        /\ user_roles' = out.user_roles
        /\ resp' = [op |-> "authenticate_oidc", subject |-> subject, groups |-> groups,
                    environment_id |-> environment_id, created |-> out.created,
                    is_first_user |-> out.is_first_user]
        /\ UNCHANGED <<permissions, environments, roles, role_permissions,
                       oidc_providers, settings, sync_task, login_tasks, pulsar>>

(* the OIDC callback up to the reads of find_or_create_from_oidc: the call
   keeps the users table as get_by_subject_and_issuer and count_all saw it;
   one call per subject is in flight *)
LoginBegin(subject, groups, environment_id) ==
    /\ subject \notin DOMAIN login_tasks
    /\ login_tasks' = Put(login_tasks, subject,
                          [groups |-> groups, environment_id |-> environment_id,
                           seen |-> users])
    /\ resp' = [op |-> "login_begin", subject |-> subject]
    /\ UNCHANGED <<dbvars, settings, sync_task, pulsar>>

(* the rest of authenticate_oidc up to db.commit(): the user row is created
   or updated from what the call read, and its rows of user_roles are
   written, into the tables as they are now *)
LoginFinish(subject) ==
    /\ subject \in DOMAIN login_tasks
    /\ LET t == login_tasks[subject]
       IN  \E out \in { authenticate_oidc(t.seen, user_roles, roles, environments,
                                          subject, t.groups, t.environment_id) } :
              /\ users' = Put(users, subject, out.users[subject])
              /\ user_roles' = out.user_roles
              /\ login_tasks' = Drop(login_tasks, subject)
              /\ resp' = [op |-> "authenticate_oidc", subject |-> subject,
                          groups |-> t.groups, environment_id |-> t.environment_id,
                          created |-> out.created, is_first_user |-> out.is_first_user,
                          user_count |-> Cardinality(DOMAIN t.seen)]
    /\ UNCHANGED <<permissions, environments, roles, role_permissions,
                   oidc_providers, settings, sync_task, pulsar>>

----------------------------------------------------------------------------
(* Specifications *)

(* the database after the migrations, and a cluster without grants *)
Init ==
    /\ permissions = << >>
    /\ environments = EmptyMap
    /\ users = EmptyMap
    /\ roles = {}
    /\ role_permissions = {}
    /\ user_roles = EmptyBag
    /\ oidc_providers = EmptyMap
    /\ settings = DefaultSettings
    /\ sync_task = NoTask
    /\ login_tasks = EmptyMap
    /\ pulsar = [ ns \in Namespaces |-> EmptyMap ]
    /\ resp = [op |-> "init"]

IdsNamed(names) == { r.id : r \in { x \in roles : x.name \in names } }

(* catalog, environments and role store *)
Next ==
    \/ \E e \in Envs : CreateEnvironment(e)
    \/ Startup
    \/ EnableRbac(ActiveEnv)
    \/ \E e \in Envs, name \in RoleNames : CreateRole(e, name)
    \/ \E id \in IdsNamed(RoleNames) \cup {NoRole}, name \in RoleNames : UpdateRole(id, name)
    \/ \E id \in IdsNamed(RoleNames) \cup {NoRole} : DeleteRole(id)
    \/ GrantNamespacePermission(Str_n, "dev", <<"functions">>)
    \/ SyncNamespace(Str_n, "pulsar_to_console", FALSE)

Spec == Init /\ [][Next]_vars

(* one environment set up and seeded by a restart, sync not configured *)
InitSync ==
    LET st == SeedEnvsLoop([r |-> {}, g |-> {}], {ActiveEnv},
                           SeedService_seed_permissions(permissions), Len(EnvOrder))
    IN  /\ permissions = SeedService_seed_permissions(<< >>).perms
        /\ environments = [ e \in {ActiveEnv} |->
                              [rbac_enabled |-> FALSE, rbac_sync_mode |-> "console_only"] ]
        /\ users = EmptyMap
        /\ roles = st.r
        /\ role_permissions = st.g
        /\ user_roles = EmptyBag
        /\ oidc_providers = EmptyMap
        /\ settings = DefaultSettings
        /\ sync_task = NoTask
        /\ login_tasks = EmptyMap
        /\ pulsar = [ ns \in Namespaces |-> EmptyMap ]
        /\ resp = [op |-> "init"]

(* the sync engine between the console's grants and the cluster's *)
NextSync ==
    \/ \E mode \in SyncModes : UpdateEnvironment(ActiveEnv, mode)
    \/ \E role \in PulsarRoles, actions \in PulsarActionLists :
          GrantNamespacePermission(Str_n, role, actions)
    \/ \E role \in PulsarRoles : RevokeNamespacePermission(Str_n, role)
    \/ \E id \in IdsNamed({"viewer"}), a \in ConsoleActions :
          \E pid \in PermissionIds(permissions, P(a, "namespace")) :
             AddPermissionToRole(id, pid, Path(Tenant, Str_n))
    \/ \E d \in Directions \cup {NoDirection}, dry_run \in BOOLEAN :
          SyncNamespace(Str_n, d, dry_run)

SpecSync == InitSync /\ [][NextSync]_vars

(* the tenant-wide sync over both namespaces *)
NextBulk ==
    \/ \E mode \in SyncModes : UpdateEnvironment(ActiveEnv, mode)
    \/ \E ns \in Namespaces : GrantNamespacePermission(ns, "dev", <<"functions">>)
    \/ \E id \in IdsNamed({"viewer"}), ns \in Namespaces :
          \E pid \in PermissionIds(permissions, P("read", "namespace")) :
             AddPermissionToRole(id, pid, Path(Tenant, ns))
    \/ \E d \in Directions \cup {NoDirection}, dry_run, unreachable \in BOOLEAN :
          SyncAllNamespaces(d, dry_run, unreachable)

SpecBulk == InitSync /\ [][NextBulk]_vars

(* syncs that are run again, over grants with or without actions *)
NextRepeat ==
    \/ \E role \in PulsarRoles, actions \in ClusterActionLists :
          GrantNamespacePermission(Str_n, role, actions)
    \/ \E id \in IdsNamed({"viewer"}) :
          \E pid \in PermissionIds(permissions, P("functions", "namespace")) :
             AddPermissionToRole(id, pid, Path(Tenant, Str_n))
    \/ \E d \in Directions : SyncNamespace(Str_n, d, FALSE)

SpecRepeat == InitSync /\ [][NextRepeat]_vars

(* previews and syncs while the cluster answers or does not *)
NextOutage ==
    \/ \E mode \in SyncModes : UpdateEnvironment(ActiveEnv, mode)
    \/ \E role \in PulsarRoles : GrantNamespacePermission(Str_n, role, <<"functions">>)
    \/ \E id \in IdsNamed({"viewer"}) :
          \E pid \in PermissionIds(permissions, P("functions", "namespace")) :
             AddPermissionToRole(id, pid, Path(Tenant, Str_n))
    \/ \E d \in Directions \cup {NoDirection}, unreachable \in BOOLEAN :
          PreviewSync(Str_n, d, unreachable)
    \/ \E d \in Directions \cup {NoDirection}, dry_run, unreachable \in BOOLEAN :
          SyncNamespaceOrRaise(Str_n, d, dry_run, unreachable)

SpecOutage == InitSync /\ [][NextOutage]_vars

(* a sync that runs change by change while both stores are edited *)
NextRunning ==
    \/ \E role \in PulsarRoles, actions \in ClusterActionLists \ {<< >>} :
          GrantNamespacePermission(Str_n, role, actions)
    \/ RevokeNamespacePermission(Str_n, "viewer")
    \/ \E id \in IdsNamed({"viewer"}), a \in ConsoleActions :
          \E pid \in PermissionIds(permissions, P(a, "namespace")) :
             AddPermissionToRole(id, pid, Path(Tenant, Str_n))
    \/ \E d \in Directions : SyncStart(Str_n, d)
    \/ SyncApplyNext

SpecRunning == InitSync /\ [][NextRunning]_vars

(* two environments set up and seeded by a restart, two users of whom the
   first to log in is the global admin *)
InitPolicy ==
    LET st == SeedEnvsLoop([r |-> {}, g |-> {}], Envs,
                           SeedService_seed_permissions(permissions), Len(EnvOrder))
    IN  /\ permissions = SeedService_seed_permissions(<< >>).perms
        /\ environments = [ e \in Envs |->
                              [rbac_enabled |-> FALSE, rbac_sync_mode |-> "console_only"] ]
        /\ users = [ u \in UserIds |-> [is_global_admin |-> (u = FirstUser)] ]
        /\ roles = st.r
        /\ role_permissions = st.g
        /\ user_roles = EmptyBag
        /\ oidc_providers = EmptyMap
        /\ settings = DefaultSettings
        /\ sync_task = NoTask
        /\ login_tasks = EmptyMap
        /\ pulsar = [ ns \in Namespaces |-> EmptyMap ]
        /\ resp = [op |-> "init"]

(* policy evaluation over a changing role and assignment store *)
NextPolicy ==
    \/ \E e \in Envs : EnableRbac(e)
    \/ \E e \in Envs : DisableRbac(e)
    \/ CreateRole(ActiveEnv, "custom")
    \/ \E u \in UserIds, id \in IdsNamed(AssignableNames) : AssignRoleToUser(u, id)
    \/ \E u \in UserIds, id \in IdsNamed(AssignableNames) : RemoveRoleFromUser(u, id)
    \/ \E id \in IdsNamed({"custom"}), pid \in PermissionIds(permissions, P("read", "namespace")),
          pat \in GrantPatterns : AddPermissionToRole(id, pid, pat)
    \/ \E id \in IdsNamed({"custom"}), pid \in PermissionIds(permissions, P("read", "namespace")),
          pat \in GrantPatterns : RemovePermissionFromRole(id, pid, pat)

SpecPolicy == InitPolicy /\ [][NextPolicy]_vars

(* two environments set up and seeded by a restart, nobody has logged in
   yet; the first environment may have an OIDC provider *)
InitLogin ==
    LET st == SeedEnvsLoop([r |-> {}, g |-> {}], Envs,
                           SeedService_seed_permissions(permissions), Len(EnvOrder))
    IN  /\ permissions = SeedService_seed_permissions(<< >>).perms
        /\ environments = [ e \in Envs |->
                              [rbac_enabled |-> FALSE, rbac_sync_mode |-> "console_only"] ]
        /\ users = EmptyMap
        /\ roles = st.r
        /\ role_permissions = st.g
        /\ user_roles = EmptyBag
        /\ \/ oidc_providers = EmptyMap
           \/ \E p \in ProviderChoices(ActiveEnv) :
                 oidc_providers = [ e \in {ActiveEnv} |-> p ]
        /\ settings \in SettingsChoices
        /\ sync_task = NoTask
        /\ login_tasks = EmptyMap
        /\ pulsar = [ ns \in Namespaces |-> EmptyMap ]
        /\ resp = [op |-> "init"]

(* logins, and an administrator who assigns and removes roles by hand *)
NextLogin ==
    \/ \E subject \in UserIds, groups \in SUBSET Groups,
          environment_id \in {ActiveEnv, NoEnvironment} :
          Login(subject, groups, environment_id)
    \/ \E u \in DOMAIN users :
          \E r \in get_by_name(roles, ActiveEnv, "developer") : AssignRoleToUser(u, r.id)
    \/ \E u \in DOMAIN users :
          \E r \in get_by_name(roles, ActiveEnv, "superuser") : RemoveRoleFromUser(u, r.id)

SpecLogin == InitLogin /\ [][NextLogin]_vars

(* logins that overlap: each reads the users table, then commits *)
NextConcurrentLogins ==
    \/ \E subject \in UserIds, groups \in {{}, {"ops"}},
          environment_id \in {ActiveEnv, NoEnvironment} :
          LoginBegin(subject, groups, environment_id)
    \/ \E subject \in UserIds : LoginFinish(subject)

SpecConcurrentLogins == InitLogin /\ [][NextConcurrentLogins]_vars

----------------------------------------------------------------------------
(* Policy evaluator: properties *)

QueryActions == {"read", "write", "bogus"}
QueryLevels == {"namespace", "topic", "bogus"}
QueryPaths == {None, Path(Str_a, Str_n), Path(Str_ab, Str_n)}

IsGlobalAdmin(u) == u \in DOMAIN users /\ users[u].is_global_admin

(* the roles of an environment the identity is assigned *)
AssignedRoles(u, e) ==
    { r \in roles : r.environment_id = e /\ BagIn(UR(u, r.id), user_roles) }

HoldsSuperuser(u) ==
    \E e \in Envs : \E r \in AssignedRoles(u, e) : r.name = "superuser"

Bypass(u) == IsGlobalAdmin(u) \/ HoldsSuperuser(u)

RbacOn(e) == e \in DOMAIN environments /\ environments[e].rbac_enabled

(* the pattern rules of the policy evaluator, on path segments *)
UnderPrefix(pattern, path) ==
    /\ path # None
    /\ \E k \in 1..Len(path) :
          /\ path[k] = "/"
          /\ SubSeq(path, 1, k - 1) = SubSeq(pattern, 1, Len(pattern) - 2)

PatternAllows(pattern, path) ==
    \/ pattern = None
    \/ pattern = Star
    \/ /\ pattern \notin {None, Star}
       /\ EndsWith(pattern, <<"/", "*">>)
       /\ UnderPrefix(pattern, path)
    \/ /\ pattern \notin {None, Star}
       /\ ~ EndsWith(pattern, <<"/", "*">>)
       /\ pattern = path

Granted(u, e, a, l, p) ==
    \E r \in AssignedRoles(u, e) : \E g \in role_permissions :
        /\ g.role_id = r.id
        /\ g.action = a
        /\ g.resource_level = l
        /\ PatternAllows(g.resource_pattern, p)

(* C1: an identity that is global admin, or holds a role named superuser in
   any environment, is allowed in every environment, RBAC-enabled ones in
   which it has no assignment included, for every action, level and path *)
C1_BypassAllows ==
    \A u \in CheckUsers :
        Bypass(u) =>
            \A e \in CheckEnvs, a \in QueryActions, l \in QueryLevels, p \in QueryPaths :
                check_permission(u, e, a, l, p) = "allow"

C1_Witness ==
    \E u \in UserIds, e \in Envs :
        /\ RbacOn(e)
        /\ AssignedRoles(u, e) = {}
        /\ ~ IsGlobalAdmin(u)
        /\ HoldsSuperuser(u)
        /\ IsGlobalAdmin(FirstUser)
        /\ AssignedRoles(FirstUser, e) = {}
        /\ check_permission(u, e, "write", "namespace", Path(Str_a, Str_n)) = "allow"
        /\ check_permission(FirstUser, e, "write", "namespace", Path(Str_a, Str_n)) = "allow"

(* C2: in an environment whose rbac_enabled is false every identity is
   allowed every action, level and path, whatever roles and grants exist *)
C2_RbacOffAllows ==
    \A e \in DOMAIN environments :
        ~ environments[e].rbac_enabled =>
            \A u \in CheckUsers, a \in QueryActions, l \in QueryLevels, p \in QueryPaths :
                check_permission(u, e, a, l, p) = "allow"

C2_Witness ==
    \E u \in UserIds, e \in Envs :
        /\ ~ environments[e].rbac_enabled
        /\ ~ Bypass(u)
        /\ ~ Granted(u, e, "write", "namespace", Path(Str_a, Str_n))
        /\ \E e2 \in Envs : RbacOn(e2)
        /\ check_permission(u, e, "write", "namespace", Path(Str_a, Str_n)) = "allow"
        /\ check_permission(Ghost, e, "write", "namespace", Path(Str_a, Str_n)) = "allow"

(* C3: without bypass, in an RBAC-enabled environment, the identity is allowed
   exactly when a role assigned to it in that environment has a grant on
   (action, level) whose pattern matches the path: null and "*" match any
   path, "prefix/*" matches the paths under the prefix on a segment boundary,
   any other pattern matches by equality *)
C3_AllowIffGrant ==
    \A u \in CheckUsers, e \in Envs :
        (~ Bypass(u) /\ RbacOn(e)) =>
            \A a \in QueryActions \cap PermissionAction,
               l \in QueryLevels \cap ResourceLevel, p \in QueryPaths :
                check_permission(u, e, a, l, p) = "allow" <=> Granted(u, e, a, l, p)

C3_Witness ==
    \E u \in UserIds, e \in Envs, e2 \in Envs :
        /\ e2 # e
        /\ ~ Bypass(u)
        /\ RbacOn(e) /\ RbacOn(e2)
        /\ AssignedRoles(u, e2) = {}
        /\ \E r \in AssignedRoles(u, e) : \E g \in role_permissions :
              g.role_id = r.id /\ g.resource_pattern = Str_a \o <<"/", "*">>
        /\ check_permission(u, e, "read", "namespace", Path(Str_a, Str_n)) = "allow"
        /\ check_permission(u, e, "read", "namespace", Path(Str_ab, Str_n)) = "deny"
        /\ check_permission(u, e2, "read", "namespace", Path(Str_a, Str_n)) = "deny"

(* the case of C4: no user with that id, no assignment in the environment, or
   no grant on (action, level) among the assigned roles *)
MissingData(u, e, a, l) ==
    \/ u \notin DOMAIN users
    \/ AssignedRoles(u, e) = {}
    \/ \A r \in AssignedRoles(u, e) : \A g \in role_permissions :
          g.role_id = r.id => ~ (g.action = a /\ g.resource_level = l)

(* C4 as stated: in an RBAC-enabled environment, when the user, the
   assignment or the grant is missing, check_permission returns deny *)
C4_MissingDataDenies ==
    \A u \in CheckUsers, e \in Envs :
        RbacOn(e) =>
            \A a \in QueryActions \cap PermissionAction,
               l \in QueryLevels \cap ResourceLevel :
                MissingData(u, e, a, l) =>
                    \A p \in QueryPaths : check_permission(u, e, a, l, p) = "deny"

(* C4 amended: in an RBAC-enabled environment, when the user, the assignment
   or the grant is missing and no bypass applies to the identity,
   check_permission raises no error and returns deny *)
C4_MissingDataDeniesNoBypass ==
    \A u \in CheckUsers, e \in Envs :
        (RbacOn(e) /\ ~ Bypass(u)) =>
            \A a \in QueryActions \cap PermissionAction,
               l \in QueryLevels \cap ResourceLevel :
                MissingData(u, e, a, l) =>
                    \A p \in QueryPaths : check_permission(u, e, a, l, p) = "deny"

C4_Witness ==
    \E u \in UserIds, e \in Envs, e2 \in Envs :
        /\ RbacOn(e) /\ RbacOn(e2)
        /\ ~ Bypass(u)
        /\ AssignedRoles(u, e) = {}
        /\ AssignedRoles(u, e2) # {}
        /\ Granted(u, e2, "read", "namespace", Path(Str_a, Str_n))
        /\ MissingData(u, e2, "write", "namespace")
        /\ check_permission(Ghost, e, "read", "namespace", Path(Str_a, Str_n)) = "deny"
        /\ check_permission(u, e, "read", "namespace", Path(Str_a, Str_n)) = "deny"
        /\ check_permission(u, e2, "write", "namespace", Path(Str_a, Str_n)) = "deny"

(* C5: user_roles never holds two rows for one (identity, role), and an
   assign_role_to_user for a pair that is already assigned fails with
   Conflict and leaves the assignment store as it was *)
C5_AssignTwiceOneRow ==
    /\ [] (\A x \in BagToSet(user_roles) : CopiesIn(x, user_roles) = 1)
    /\ [][ \A u \in UserIds, id \in RoleIds(roles) :
             (resp'.op = "assign_role_to_user" /\ has_role(u, id) /\ AssignRoleToUser(u, id)) =>
                 (resp'.result = "Conflict" /\ user_roles' = user_roles) ]_vars

C5_Witness ==
    /\ resp.op = "assign_role_to_user"
    /\ resp.result = "Conflict"
    /\ \E x \in BagToSet(user_roles) : CopiesIn(x, user_roles) = 1

----------------------------------------------------------------------------
(* Role store and catalog: properties *)

RoleOf(id) == CHOOSE r \in roles : r.id = id

(* C6: no two roles of one environment share a name, whatever sequence of
   create_role, update_role, delete_role, seeding and sync applications ran;
   create_role with a name the environment has, and the rename of a role
   that may be renamed to a name another role of its environment has, fail
   with Conflict and leave the role store as it was *)
C6_NameUniquePerEnvironment ==
    /\ [] (\A r1, r2 \in roles :
              (r1.environment_id = r2.environment_id /\ r1.name = r2.name) => r1 = r2)
    /\ [][ \A e \in Envs, name \in RoleNames :
             ( /\ resp'.op = "create_role"
               /\ get_by_name(roles, e, name) # {}
               /\ CreateRole(e, name) ) =>
                 (resp'.result = "Conflict" /\ UNCHANGED dbvars) ]_vars
    /\ [][ \A id \in RoleIds(roles), name \in RoleNames :
             ( /\ resp'.op = "update_role"
               /\ ~ RoleOf(id).is_system
               /\ name # RoleOf(id).name
               /\ get_by_name(roles, RoleOf(id).environment_id, name) # {}
               /\ UpdateRole(id, name) ) =>
                 (resp'.result = "Conflict" /\ UNCHANGED dbvars) ]_vars

C6_Witness ==
    /\ resp.op = "update_role"
    /\ resp.result = "Conflict"
    /\ \E r1, r2 \in roles : r1.name = r2.name /\ r1.environment_id # r2.environment_id
    /\ \E r \in roles, g \in role_permissions :
          /\ ~ r.is_system
          /\ g.role_id = r.id
          /\ g.resource_pattern = Path(Tenant, Str_n)

(* a system role is never removed, renamed or made a custom role *)
SystemRolesStay == [][ \A r \in roles : r.is_system => r \in roles' ]_vars

(* the rename of a system role fails with Forbidden, which is not the outcome
   for a role that does not exist, and changes nothing *)
RenameOfSystemRoleForbidden ==
    [][ \A id \in RoleIds(roles), name \in RoleNames :
          ( /\ resp'.op = "update_role"
            /\ RoleOf(id).is_system
            /\ name # RoleOf(id).name
            /\ UpdateRole(id, name) ) =>
              (resp'.result = "Forbidden" /\ UNCHANGED dbvars) ]_vars
    /\ [][ (resp'.op = "update_role" /\ UpdateRole(NoRole, "dev")) =>
             resp'.result = "NotFound" ]_vars

(* C7 as stated: delete_role and a renaming update_role of a system role fail
   with an outcome that differs from the one for a role that does not exist,
   and the system role stays as it is *)
C7_SystemRoleForbidden ==
    /\ [] (\A r \in roles : r.is_system => delete_role(r.id) # delete_role(NoRole))
    /\ RenameOfSystemRoleForbidden
    /\ SystemRolesStay

(* C7 amended: a renaming update_role of a system role fails with Forbidden,
   which differs from the outcome for a role that does not exist; delete_role
   of a system role deletes nothing and returns False, the value it returns
   for a role that does not exist; the system role stays as it is *)
C7_SystemRoleKept ==
    /\ [] (\A r \in roles : r.is_system =>
              /\ delete_role(r.id) = "False"
              /\ delete_role(NoRole) = "False"
              /\ delete_non_system(r.id).r = roles)
    /\ [][ \A id \in RoleIds(roles) :
             (resp'.op = "delete_role" /\ RoleOf(id).is_system /\ DeleteRole(id)) =>
                 (resp'.result = "False" /\ UNCHANGED dbvars) ]_vars
    /\ RenameOfSystemRoleForbidden
    /\ SystemRolesStay

C7_Witness ==
    /\ resp.op = "update_role"
    /\ resp.result = "Forbidden"
    /\ \E r \in roles : r.is_system /\ r.name = "viewer" /\ r.environment_id = ActiveEnv
    /\ \E r \in roles : ~ r.is_system

(* every pair of the table has exactly one row, and the lookup map leads
   from the pair to that row *)
Seeded(perms, map, table) ==
    \A p \in Range(table) :
        /\ Cardinality(PermissionIds(perms, p)) = 1
        /\ p \in DOMAIN map
        /\ map[p] \in PermissionIds(perms, p)

(* C8: the catalog never holds two rows for one (action, resource_level);
   each run of seed_permissions leaves exactly one row per pair of its table
   and returns a map with an entry for every pair; a run on a catalog that
   has every pair of the table inserts nothing *)
C8_SeedIdempotent ==
    /\ [] (\A i, j \in DOMAIN permissions : permissions[i] = permissions[j] => i = j)
    /\ [][ (resp'.op = "enable_rbac" /\ EnableRbac(ActiveEnv)) =>
             /\ Seeded(permissions', resp'.permission_map, PERMISSION_DEFINITIONS)
             /\ (Range(PERMISSION_DEFINITIONS) \subseteq Range(permissions)) =>
                    (permissions' = permissions /\ resp'.inserted = 0) ]_vars
    /\ [][ (resp'.op = "seed_all_environments" /\ Startup) =>
             /\ Seeded(permissions', resp'.permission_map, DEFAULT_PERMISSIONS)
             /\ (Range(DEFAULT_PERMISSIONS) \subseteq Range(permissions)) =>
                    (permissions' = permissions /\ resp'.inserted = 0) ]_vars

C8_Witness ==
    /\ resp.op = "seed_all_environments"
    /\ resp.inserted = 0
    /\ Len(permissions) = Len(PERMISSION_DEFINITIONS)
    /\ DOMAIN resp.permission_map = Range(DEFAULT_PERMISSIONS)

----------------------------------------------------------------------------
(* Sync engine: properties *)

ConsoleGrants(ns) == get_console_permissions(roles, role_permissions, Tenant, ns)
Diff(ns) == get_diff(ConsoleGrants(ns), pulsar[ns])
Buckets == {"only_in_console", "only_in_pulsar", "different", "same"}

(* C9: every role name of the console's or the cluster's grants on the
   namespace is in exactly one bucket of get_diff, and no other name is in
   any; a role of one side only is in that side's only_in bucket, a role of
   both sides is in same when the two action lists are equal as sets and in
   different otherwise; the totals are the numbers of roles of each side *)
C9_DiffPartition ==
    \A ns \in Namespaces :
        LET c == ConsoleGrants(ns)
            p == pulsar[ns]
            d == Diff(ns)
        IN  /\ \A b \in Buckets : DOMAIN d[b] \subseteq DOMAIN c \cup DOMAIN p
            /\ \A name \in DOMAIN c \cup DOMAIN p :
                  /\ Cardinality({ b \in Buckets : name \in DOMAIN d[b] }) = 1
                  /\ name \notin DOMAIN p => name \in DOMAIN d.only_in_console
                  /\ name \notin DOMAIN c => name \in DOMAIN d.only_in_pulsar
                  /\ (name \in DOMAIN c \cap DOMAIN p /\ Range(c[name]) = Range(p[name]))
                        => name \in DOMAIN d.same
                  /\ (name \in DOMAIN c \cap DOMAIN p /\ Range(c[name]) # Range(p[name]))
                        => name \in DOMAIN d.different
            /\ d.total_console = Cardinality(DOMAIN c)
            /\ d.total_pulsar = Cardinality(DOMAIN p)

C9_Witness ==
    \E ns \in Namespaces :
        /\ \E name \in DOMAIN Diff(ns).same :
              ConsoleGrants(ns)[name] # pulsar[ns][name]
        /\ DOMAIN Diff(ns).only_in_console # {}
        /\ Diff(ns).total_console = 2
        /\ Diff(ns).total_pulsar = 1

SyncMode == environments[ActiveEnv].rbac_sync_mode

Preview(ns, direction) ==
    preview_sync(environments, roles, role_permissions, pulsar, Tenant, ns, direction)

(* C10: without a direction, preview_sync is the console-to-external preview
   when the mode is sync_to_pulsar and the external-to-console preview when
   it is read_from_pulsar; when it is console_only the preview has the error
   "RBAC sync is not enabled ...", no changes and can_proceed = false, and
   sync_namespace returns success = false, no change applied, no store
   modified *)
C10_DefaultDirection ==
    /\ [] (\A ns \in Namespaces :
              /\ SyncMode = "sync_to_pulsar" =>
                    /\ Preview(ns, NoDirection).direction = "console_to_pulsar"
                    /\ Preview(ns, NoDirection) = Preview(ns, "console_to_pulsar")
              /\ SyncMode = "read_from_pulsar" =>
                    /\ Preview(ns, NoDirection).direction = "pulsar_to_console"
                    /\ Preview(ns, NoDirection) = Preview(ns, "pulsar_to_console")
              /\ SyncMode = "console_only" =>
                    /\ Len(Preview(ns, NoDirection).errors) = 1
                    /\ SubSeq(Preview(ns, NoDirection).errors[1], 1, 5)
                          = << "RBAC", "sync", "is", "not", "enabled" >>
                    /\ Preview(ns, NoDirection).changes = << >>
                    /\ ~ can_proceed(Preview(ns, NoDirection)))
    /\ [][ \A ns \in Namespaces, dry_run \in BOOLEAN :
             (SyncMode = "console_only" /\ SyncNamespace(ns, NoDirection, dry_run)) =>
                 /\ resp'.result.success = FALSE
                 /\ resp'.result.changes_applied = 0
                 /\ resp'.result.errors = << NotEnabled >>
                 /\ UNCHANGED <<dbvars, pulsar>> ]_vars

C10_Witness ==
    /\ SyncMode = "console_only"
    /\ resp.op = "sync_namespace"
    /\ resp.direction = NoDirection
    /\ ~ resp.dry_run
    /\ ~ resp.result.success
    /\ \E ns \in Namespaces :
          /\ DOMAIN Diff(ns).only_in_console # {}
          /\ DOMAIN Diff(ns).only_in_pulsar # {}

(* the two sides of a preview: the side whose grants win and the side that
   is written *)
Side(ns, side) == IF side = "console" THEN ConsoleGrants(ns) ELSE pulsar[ns]
Authoritative(direction) == IF direction = "console_to_pulsar" THEN "console" ELSE "pulsar"
Target(direction) == IF direction = "console_to_pulsar" THEN "pulsar" ELSE "console"

(* the changes of a preview that name the role *)
ChangesFor(preview, name) ==
    { preview.changes[i] : i \in { j \in DOMAIN preview.changes :
                                      preview.changes[j].role = name } }
ChangeCount(preview, name) ==
    Cardinality({ j \in DOMAIN preview.changes : preview.changes[j].role = name })
WarningCount(preview, name) ==
    Cardinality({ j \in DOMAIN preview.warnings : preview.warnings[j] = name })

(* C11: in the preview of either direction a role of the authoritative side
   only has exactly one change, an add with that side's actions; a role of
   the target side only has exactly one change, a remove, and one warning; a
   role of both sides whose action sets differ has exactly one change, an
   update with the authoritative side's actions; a role of both sides with
   equal action sets has none; no change names any other role; has_changes
   is false exactly when both sides hold the same roles with equal action
   sets *)
C11_OneChangePerRole ==
    \A ns \in Namespaces, direction \in Directions :
        LET auth == Side(ns, Authoritative(direction))
            target == Side(ns, Target(direction))
            preview == Preview(ns, direction)
            names == DOMAIN auth \cup DOMAIN target
        IN  /\ \A i \in DOMAIN preview.changes : preview.changes[i].role \in names
            /\ Len(preview.warnings) = Cardinality(DOMAIN target \ DOMAIN auth)
            /\ \A name \in names :
                  /\ name \notin DOMAIN target =>
                        /\ ChangeCount(preview, name) = 1
                        /\ \A c \in ChangesFor(preview, name) :
                              c.action = "add" /\ c.permissions = auth[name]
                        /\ WarningCount(preview, name) = 0
                  /\ name \notin DOMAIN auth =>
                        /\ ChangeCount(preview, name) = 1
                        /\ \A c \in ChangesFor(preview, name) : c.action = "remove"
                        /\ WarningCount(preview, name) = 1
                  /\ (name \in DOMAIN auth \cap DOMAIN target
                          /\ Range(auth[name]) # Range(target[name])) =>
                        /\ ChangeCount(preview, name) = 1
                        /\ \A c \in ChangesFor(preview, name) :
                              c.action = "update" /\ c.permissions = auth[name]
                        /\ WarningCount(preview, name) = 0
                  /\ (name \in DOMAIN auth \cap DOMAIN target
                          /\ Range(auth[name]) = Range(target[name])) =>
                        ChangeCount(preview, name) = 0
            /\ ~ has_changes(preview) <=>
                  /\ DOMAIN auth = DOMAIN target
                  /\ \A name \in names : Range(auth[name]) = Range(target[name])

C11_Witness ==
    \E ns \in Namespaces :
        /\ { c.action : c \in Range(Preview(ns, "console_to_pulsar").changes) }
              = {"update", "remove"}
        /\ Len(Preview(ns, "console_to_pulsar").warnings) = 1
        /\ { c.action : c \in Range(Preview(ns, "pulsar_to_console").changes) }
              = {"update", "add"}
        /\ Len(Preview(ns, "pulsar_to_console").warnings) = 0

(* C20 as stated: every change of a preview names the authoritative side of
   the preview's direction as its source, remove changes included *)
C20_SourceIsAuthoritative ==
    \A ns \in Namespaces, direction \in Directions :
        \A c \in Range(Preview(ns, direction).changes) :
            c.source = Authoritative(direction)

(* C20: source names the side that holds the role's listed permissions: the
   authoritative side of the preview's direction in every add and update
   change, the target side in every remove change *)
C20_SourceIsHoldingSide ==
    \A ns \in Namespaces, direction \in Directions :
        \A c \in Range(Preview(ns, direction).changes) :
            /\ c.action \in {"add", "update"} =>
                  /\ c.source = Authoritative(direction)
                  /\ c.permissions = Side(ns, c.source)[c.role]
            /\ c.action = "remove" =>
                  /\ c.source = Target(direction)
                  /\ c.permissions = Side(ns, c.source)[c.role]
                  /\ c.role \notin DOMAIN Side(ns, Authoritative(direction))

C20_Witness ==
    \E ns \in Namespaces :
        /\ \E c \in Range(Preview(ns, "console_to_pulsar").changes) :
              c.action = "remove" /\ c.source = "pulsar"
        /\ \E c \in Range(Preview(ns, "console_to_pulsar").changes) :
              c.action = "add" /\ c.source = "console"
        /\ \E c \in Range(Preview(ns, "pulsar_to_console").changes) :
              c.action = "remove" /\ c.source = "console"

(* the step is the call sync_namespace(namespace, direction, dry_run) that
   resp' records *)
SyncStep(dry_run) ==
    /\ resp'.op = "sync_namespace"
    /\ resp'.dry_run = dry_run
    /\ SyncNamespace(resp'.namespace, resp'.direction, dry_run)

(* C12 as stated: every sync_namespace with dry_run = true returns
   success = true with nothing applied and nothing failed and leaves both
   stores as they were *)
C12_DryRunSucceeds ==
    [][ SyncStep(TRUE) =>
          /\ resp'.result.success
          /\ resp'.result.changes_applied = 0
          /\ resp'.result.changes_failed = 0
          /\ UNCHANGED <<dbvars, pulsar>> ]_vars

(* C12: every sync_namespace with dry_run = true reports nothing applied and
   nothing failed and leaves the Role Store and the external store as they
   were, whatever the preview holds; it returns success = true exactly when
   the preview can proceed, and success = false with the preview's error
   when no direction is passed under mode console_only *)
C12_DryRunChangesNothing ==
    [][ SyncStep(TRUE) =>
          /\ resp'.result.changes_applied = 0
          /\ resp'.result.changes_failed = 0
          /\ UNCHANGED <<dbvars, pulsar>>
          /\ resp'.result.success
                <=> (resp'.direction # NoDirection \/ SyncMode # "console_only")
          /\ resp'.result.success =>
                /\ resp'.result.errors = << >>
                /\ resp'.result.details =
                      << [msg |-> "Dry run",
                          n |-> Len(Preview(resp'.namespace, resp'.direction).changes)] >>
          /\ ~ resp'.result.success => resp'.result.errors = << NotEnabled >> ]_vars

C12_Witness ==
    /\ resp.op = "sync_namespace"
    /\ resp.dry_run
    /\ resp.result.success
    /\ resp.result.changes_applied = 0
    /\ Len(Preview(resp.namespace, resp.direction).changes) = 2
    /\ \E c \in Range(Preview(resp.namespace, resp.direction).changes) :
          Range(c.permissions) \ valid_actions # {}

(* the [action, role] entries of a list of changes *)
Entries(changes) == [ i \in DOMAIN changes |->
                        [action |-> changes[i].action, role |-> changes[i].role] ]

(* C13: a sync_namespace with dry_run = false whose preview can proceed and
   has changes attempts every change of the preview: applied + failed is the
   number of changes, details has one entry per applied change and errors
   one per failed change, every change is in exactly one of the two lists,
   success is true exactly when nothing failed, and in a console-to-external
   sync each change that did not fail has taken effect on the external store
   whether or not an earlier change failed *)
C13_EveryChangeAttempted ==
    [][ (SyncStep(FALSE) /\ can_proceed(Preview(resp'.namespace, resp'.direction))
                        /\ has_changes(Preview(resp'.namespace, resp'.direction))) =>
          LET preview == Preview(resp'.namespace, resp'.direction)
              result == resp'.result
              ns == resp'.namespace
          IN  /\ result.changes_applied + result.changes_failed = Len(preview.changes)
              /\ Len(result.details) = result.changes_applied
              /\ Len(result.errors) = result.changes_failed
              /\ Range(result.details) \cup Range(result.errors)
                    = Range(Entries(preview.changes))
              /\ Range(result.details) \cap Range(result.errors) = {}
              /\ result.success <=> result.changes_failed = 0
              /\ preview.direction = "console_to_pulsar" =>
                    \A c \in Range(preview.changes) :
                       LET entry == [action |-> c.action, role |-> c.role]
                       IN  /\ entry \in Range(result.errors)
                                <=> (c.action # "remove"
                                       /\ Range(c.permissions) \ valid_actions # {})
                           /\ entry \in Range(result.errors) =>
                                (c.role \in DOMAIN pulsar[ns]
                                   <=> c.role \in DOMAIN pulsar'[ns])
                           /\ (entry \in Range(result.details) /\ c.action = "remove")
                                => c.role \notin DOMAIN pulsar'[ns]
                           /\ (entry \in Range(result.details) /\ c.action # "remove")
                                => /\ c.role \in DOMAIN pulsar'[ns]
                                   /\ pulsar'[ns][c.role] = c.permissions ]_vars

C13_Witness ==
    /\ resp.op = "sync_namespace"
    /\ ~ resp.dry_run
    /\ resp.direction = "console_to_pulsar"
    /\ resp.result.errors = << [action |-> "add", role |-> "viewer"] >>
    /\ resp.result.details = << [action |-> "remove", role |-> "dev"] >>
    /\ ~ resp.result.success
    /\ "dev" \notin DOMAIN pulsar[resp.namespace]

(* the direction a call takes: the one passed, or the one of the mode *)
Effective(direction) ==
    IF direction # NoDirection THEN direction
    ELSE IF SyncMode = "sync_to_pulsar" THEN "console_to_pulsar"
    ELSE IF SyncMode = "read_from_pulsar" THEN "pulsar_to_console"
    ELSE NoDirection

(* C14: in the state a sync_namespace with dry_run = false and direction
   console-to-external leaves when it returns success = true (resp holds its
   result, so nothing was written since), get_diff for the namespace has
   only_in_console, only_in_pulsar and different empty, and same holds every
   role of the console's and of the external store's grants *)
C14_DiffEmptyAfterSync ==
    (/\ resp.op = "sync_namespace"
     /\ ~ resp.dry_run
     /\ Effective(resp.direction) = "console_to_pulsar"
     /\ resp.result.success) =>
        LET ns == resp.namespace
        IN  /\ DOMAIN Diff(ns).only_in_console = {}
            /\ DOMAIN Diff(ns).only_in_pulsar = {}
            /\ DOMAIN Diff(ns).different = {}
            /\ DOMAIN Diff(ns).same = DOMAIN ConsoleGrants(ns) \cup DOMAIN pulsar[ns]
            /\ DOMAIN ConsoleGrants(ns) = DOMAIN pulsar[ns]
            /\ \A name \in DOMAIN pulsar[ns] :
                  Range(ConsoleGrants(ns)[name]) = Range(pulsar[ns][name])

C14_Witness ==
    /\ resp.op = "sync_namespace"
    /\ ~ resp.dry_run
    /\ Effective(resp.direction) = "console_to_pulsar"
    /\ resp.result.success
    /\ resp.result.details = << [action |-> "remove", role |-> "dev"],
                                [action |-> "update", role |-> "viewer"] >>
    /\ DOMAIN Diff(resp.namespace).same = {"viewer"}

(* the scenario: the console holds viewer with ["read"] on the namespace, no
   other role is granted there, and the external store has no grant on it *)
OnlyViewerReads(ns) ==
    /\ DOMAIN ConsoleGrants(ns) = {"viewer"}
    /\ ConsoleGrants(ns)["viewer"] = << "read" >>
    /\ DOMAIN pulsar[ns] = {}

(* C15 as stated: in the scenario a console-to-external sync with
   dry_run = false applies one change, fails none, and get_diff then has
   same = {viewer: [read]} *)
C15_ReadIsSynced ==
    [][ \A ns \in Namespaces :
          (SyncStep(FALSE) /\ resp'.namespace = ns
                          /\ Effective(resp'.direction) = "console_to_pulsar"
                          /\ OnlyViewerReads(ns)) =>
              /\ resp'.result.changes_applied = 1
              /\ resp'.result.changes_failed = 0
              /\ DOMAIN Diff(ns)'.same = {"viewer"}
              /\ Diff(ns)'.same["viewer"] = << "read" >> ]_vars

(* C15: in the scenario a console-to-external sync with dry_run = false
   fails to add viewer, read not being an action of the external store: it
   returns success = false, nothing applied, one change failed and one error
   for the add of viewer, writes to neither store, and get_diff, reading the
   unchanged stores, still has only_in_console = {viewer: [read]} and an
   empty same *)
C15_ReadIsRejected ==
    [][ \A ns \in Namespaces :
          (SyncStep(FALSE) /\ resp'.namespace = ns
                          /\ Effective(resp'.direction) = "console_to_pulsar"
                          /\ OnlyViewerReads(ns)) =>
              /\ ~ resp'.result.success
              /\ resp'.result.changes_applied = 0
              /\ resp'.result.changes_failed = 1
              /\ resp'.result.errors = << [action |-> "add", role |-> "viewer"] >>
              /\ UNCHANGED <<dbvars, pulsar>>
              /\ DOMAIN Diff(ns).only_in_console = {"viewer"}
              /\ Diff(ns).only_in_console["viewer"] = << "read" >>
              /\ DOMAIN Diff(ns).same = {} ]_vars

C15_Witness ==
    /\ resp.op = "sync_namespace"
    /\ ~ resp.dry_run
    /\ resp.direction = "console_to_pulsar"
    /\ OnlyViewerReads(resp.namespace)
    /\ resp.result.changes_failed = 1
    /\ resp.result.changes_applied = 0

(* the step is a sync_all_namespaces call that got the list of namespaces *)
SyncAllStep ==
    /\ resp'.op = "sync_all_namespaces"
    /\ SyncAllNamespaces(resp'.direction, resp'.dry_run, FALSE)

(* some role's console grants on the namespace hold an action the external
   store does not take *)
HasUnsupported(ns) ==
    \E name \in DOMAIN ConsoleGrants(ns) :
        Range(ConsoleGrants(ns)[name]) \ valid_actions # {}

(* C16: a sync_all_namespaces call that gets the list of namespaces returns
   one entry per namespace of the list; when it applies console-to-external
   changes (dry_run = false), a namespace where a role's action set holds an
   unsupported action has changes_failed >= 1 and success = false, and every
   other namespace, whether listed before or after it, reports
   success = true and is synced: the external store holds there exactly the
   console's roles with the console's action lists *)
C16_PartialFailure ==
    [][ SyncAllStep =>
          /\ DOMAIN resp'.result = Namespaces
          /\ (~ resp'.dry_run /\ Effective(resp'.direction) = "console_to_pulsar") =>
                \A ns \in Namespaces :
                    /\ HasUnsupported(ns) =>
                          /\ resp'.result[ns].changes_failed >= 1
                          /\ ~ resp'.result[ns].success
                    /\ ~ HasUnsupported(ns) =>
                          /\ resp'.result[ns].success
                          /\ resp'.result[ns].changes_failed = 0
                          /\ pulsar'[ns] = ConsoleGrants(ns) ]_vars

C16_Witness ==
    /\ resp.op = "sync_all_namespaces"
    /\ ~ resp.dry_run
    /\ Effective(resp.direction) = "console_to_pulsar"
    /\ DOMAIN resp.result = Namespaces
    /\ resp.result[Str_n].changes_failed = 1
    /\ ~ resp.result[Str_n].success
    /\ resp.result[Str_m].success
    /\ resp.result[Str_m].changes_applied = 1
    /\ DOMAIN pulsar[Str_m] = {}

----------------------------------------------------------------------------
(* Login-time reconciliation *)

(* the step is a login *)
LoginStep == resp'.op = "authenticate_oidc"

(* the provider row a login at environment_id reads, as a set *)
ProviderAt(environment_id) ==
    { oidc_providers[e] : e \in DOMAIN oidc_providers \cap {environment_id} }

(* sync_on_login as the login at environment_id sees it *)
SyncOnLogin(environment_id) ==
    IF ProviderAt(environment_id) = {}
    THEN settings.oidc_sync_roles_on_login
    ELSE \A p \in ProviderAt(environment_id) : p.sync_roles_on_login

(* some group of the login is an admin group *)
InAdminGroup(groups, environment_id) ==
    \E g \in groups :
       \/ g \in settings.oidc_admin_groups_list
       \/ \E p \in ProviderAt(environment_id) : g \in p.admin_groups

(* names of the roles of environment_id that user_id holds in ur *)
NamesHeld(ur, user_id, environment_id) ==
    { r.name : r \in { x \in roles : /\ x.environment_id = environment_id
                                      /\ BagIn(UR(user_id, x.id), ur) } }

(* the rows of ur that are not rows of user_id in environment_id *)
RowsElsewhere(ur, user_id, environment_id) ==
    { x \in BagToSet(ur) : x \notin UserRolesIn(ur, roles, user_id, environment_id) }

(* the target names that are names of roles of environment_id *)
ResolvedTarget(p, groups) ==
    { r.name : r \in { x \in roles : /\ x.environment_id = p.environment_id
                                      /\ x.name \in TargetRoleNames(p, groups) } }

(* C17: a login at an environment whose provider has sync_roles_on_login
   false, or that has no provider, deletes no assignment: every row of
   user_roles is still there after the login, whatever the groups map to *)
C17_NoSyncNeverDeletes ==
    [][ (LoginStep /\ \A p \in ProviderAt(resp'.environment_id) : ~ p.sync_roles_on_login)
        => (user_roles \sqsubseteq user_roles') ]_vars

(* C17 witness: with sync_roles_on_login false a user who logged in without
   the group ops still holds operator, the role that group maps to *)
C17_Witness ==
    /\ resp.op = "authenticate_oidc"
    /\ ~ resp.created
    /\ "ops" \notin resp.groups
    /\ \E p \in ProviderAt(resp.environment_id) :
          /\ ~ p.sync_roles_on_login
          /\ DOMAIN p.group_role_mappings # {}
          /\ "operator" \in NamesHeld(user_roles, resp.subject, p.environment_id)
          /\ "operator" \notin TargetRoleNames(p, resp.groups)

(* C18 as stated: after the reconciliation of a login whose provider has
   sync_roles_on_login true, the roles the user holds in the provider's
   environment are exactly the target names that resolve to roles of it *)
C18_ExactlyTheTarget ==
    [][ (LoginStep /\ ~ resp'.is_first_user)
        => \A p \in ProviderAt(resp'.environment_id) :
              p.sync_roles_on_login
              => NamesHeld(user_roles', resp'.subject, p.environment_id)
                 = ResolvedTarget(p, resp'.groups) ]_vars

(* C18: when the provider has group_role_mappings and sync_roles_on_login is
   true, the roles held in the provider's environment after the
   reconciliation are exactly the resolved target (none when the target is
   empty or resolves to nothing) and every other row is left alone; when the
   provider has no group_role_mappings the reconciliation changes nothing *)
C18_ExactlyTheTargetWhenMapped ==
    [][ (LoginStep /\ ~ resp'.is_first_user)
        => \A p \in ProviderAt(resp'.environment_id) :
              /\ (p.sync_roles_on_login /\ DOMAIN p.group_role_mappings # {})
                 => /\ NamesHeld(user_roles', resp'.subject, p.environment_id)
                       = ResolvedTarget(p, resp'.groups)
                    /\ RowsElsewhere(user_roles', resp'.subject, p.environment_id)
                       = RowsElsewhere(user_roles, resp'.subject, p.environment_id)
              /\ DOMAIN p.group_role_mappings = {} => UNCHANGED user_roles ]_vars

(* C18 witness: after a login with both groups, one of which maps to no
   role, the first user holds operator and the default role viewer in the
   provider's environment, no longer superuser there, and still superuser in
   the other environment *)
C18_Witness ==
    /\ resp.op = "authenticate_oidc"
    /\ ~ resp.created
    /\ resp.groups = Groups
    /\ \E p \in ProviderAt(resp.environment_id) :
          /\ p.sync_roles_on_login
          /\ p.default_role_name = "viewer"
          /\ "auditor" \in TargetRoleNames(p, resp.groups)
          /\ NamesHeld(user_roles, resp.subject, p.environment_id) = {"operator", "viewer"}
    /\ \E e \in Envs : "superuser" \in NamesHeld(user_roles, resp.subject, e)

(* C19: on the login of an existing user the flag is true afterwards when a
   group is an admin group, it goes from true to false only when no group is
   an admin group and sync_on_login is true, and no step of any kind clears
   it while sync_on_login is false *)
C19_AdminFlag ==
    [][ /\ (LoginStep /\ ~ resp'.created)
           => /\ InAdminGroup(resp'.groups, resp'.environment_id)
                 => users'[resp'.subject].is_global_admin
              /\ (users[resp'.subject].is_global_admin
                  /\ ~ users'[resp'.subject].is_global_admin)
                 => /\ ~ InAdminGroup(resp'.groups, resp'.environment_id)
                    /\ SyncOnLogin(resp'.environment_id)
        /\ \A u \in DOMAIN users :
              (users[u].is_global_admin /\ ~ users'[u].is_global_admin)
              => /\ LoginStep
                 /\ resp'.subject = u
                 /\ SyncOnLogin(resp'.environment_id) ]_vars

(* C19 witness: an existing global admin has logged in with no admin group
   while sync_on_login is false and is still a global admin, and another
   existing user has got the flag from an admin group *)
C19_Witness ==
    /\ resp.op = "authenticate_oidc"
    /\ ~ resp.created
    /\ ~ InAdminGroup(resp.groups, resp.environment_id)
    /\ ~ SyncOnLogin(resp.environment_id)
    /\ users[resp.subject].is_global_admin
    /\ \A u \in UserIds : u \in DOMAIN users /\ users[u].is_global_admin

(* C22 as stated: after the reconciliation of a login, a default_role_name
   that names a role of the provider's environment is a role the user holds
   there, whatever the groups and whatever the mappings *)
C22_DefaultRoleHeld ==
    [][ (LoginStep /\ ~ resp'.is_first_user)
        => \A p \in ProviderAt(resp'.environment_id) :
              (/\ p.default_role_name # NoName
               /\ get_by_name(roles, p.environment_id, p.default_role_name) # {})
              => p.default_role_name
                    \in NamesHeld(user_roles', resp'.subject, p.environment_id) ]_vars

(* C22: the default role is held after the reconciliation when the provider
   has group_role_mappings, for every group set *)
C22_DefaultRoleHeldWhenMapped ==
    [][ (LoginStep /\ ~ resp'.is_first_user)
        => \A p \in ProviderAt(resp'.environment_id) :
              (/\ p.default_role_name # NoName
               /\ get_by_name(roles, p.environment_id, p.default_role_name) # {}
               /\ DOMAIN p.group_role_mappings # {})
              => p.default_role_name
                    \in NamesHeld(user_roles', resp'.subject, p.environment_id) ]_vars

(* C22 witness: a user who logged in with no group holds the default role
   viewer, with sync_roles_on_login false and mappings that match no group *)
C22_Witness ==
    /\ resp.op = "authenticate_oidc"
    /\ ~ resp.is_first_user
    /\ resp.groups = {}
    /\ \E p \in ProviderAt(resp.environment_id) :
          /\ ~ p.sync_roles_on_login
          /\ DOMAIN p.group_role_mappings # {}
          /\ p.default_role_name = "viewer"
          /\ "viewer" \in NamesHeld(user_roles, resp.subject, p.environment_id)

----------------------------------------------------------------------------
(* Unknown strings and missing environments in the policy evaluator *)

(* the pair holds an action or a level outside the vocabulary *)
Unknown(a, l) == a \notin PermissionAction \/ l \notin ResourceLevel

(* C24 as stated: an action or a level outside the vocabulary yields the
   error for every identity and every environment, bypass or not *)
C24_UnknownAlwaysRejected ==
    \A u \in CheckUsers, e \in CheckEnvs, a \in QueryActions, l \in QueryLevels,
       p \in QueryPaths :
        Unknown(a, l) => check_permission(u, e, a, l, p) = "ValueError"

(* C24: an action or a level outside the vocabulary yields the error exactly
   when no bypass applies, that is when the identity has no superuser access
   and the environment exists with RBAC enabled; under a bypass the call is
   allowed before the strings are looked at *)
C24_UnknownRejectedWithoutBypass ==
    \A u \in CheckUsers, e \in CheckEnvs, a \in QueryActions, l \in QueryLevels,
       p \in QueryPaths :
        Unknown(a, l) =>
            check_permission(u, e, a, l, p)
                = IF ~ Bypass(u) /\ RbacOn(e) THEN "ValueError" ELSE "allow"

(* C24 witness: in an RBAC-enabled environment an assigned user without
   bypass gets the error for an unknown action and for an unknown level,
   while the global admin is allowed the same calls *)
C24_Witness ==
    \E u \in UserIds, e \in Envs :
        /\ RbacOn(e)
        /\ ~ Bypass(u)
        /\ AssignedRoles(u, e) # {}
        /\ check_permission(u, e, "bogus", "namespace", None) = "ValueError"
        /\ check_permission(u, e, "read", "bogus", None) = "ValueError"
        /\ IsGlobalAdmin(FirstUser)
        /\ check_permission(FirstUser, e, "bogus", "bogus", None) = "allow"

(* C29: an identity without superuser access is allowed every action, level
   and path, known or not, at an environment id that matches no environment *)
C29_MissingEnvironmentAllows ==
    \A u \in CheckUsers :
        ~ Bypass(u) =>
            \A a \in QueryActions, l \in QueryLevels, p \in QueryPaths :
                check_permission(u, NoEnv, a, l, p) = "allow"

(* C29 witness: a user without bypass who is denied a call in an RBAC-enabled
   environment is allowed the same call at the missing environment *)
C29_Witness ==
    \E u \in UserIds, e \in Envs :
        /\ NoEnv \notin DOMAIN environments
        /\ ~ Bypass(u)
        /\ RbacOn(e)
        /\ check_permission(u, e, "write", "namespace", Path(Str_a, Str_n)) = "deny"
        /\ check_permission(u, NoEnv, "write", "namespace", Path(Str_a, Str_n)) = "allow"

----------------------------------------------------------------------------
(* Route guard *)

(* C25 as stated: the route guard admits every user who is global admin or
   holds a superuser role in any environment, for every action, level and
   path *)
C25_GuardAdmitsSuperuserAccess ==
    \A u \in DOMAIN users :
        Bypass(u) =>
            \A a \in QueryActions, l \in QueryLevels, p \in QueryPaths :
                require_permission(u, a, l, p) = "admit"

(* C25: the route guard admits every user who holds exactly one superuser
   role, in whatever environment, for every action, level and path, known or
   not, whatever the active environment's RBAC switch and grants are *)
C25_GuardAdmitsOneSuperuserRole ==
    \A u \in DOMAIN users :
        Cardinality({ e \in Envs : \E r \in AssignedRoles(u, e) : r.name = "superuser" }) = 1
        => \A a \in QueryActions, l \in QueryLevels, p \in QueryPaths :
               require_permission(u, a, l, p) = "admit"

(* C25 witness: a user who is not global admin holds superuser in the other
   environment only, has no role in the RBAC-enabled active environment and
   is admitted, unknown strings included *)
C25_Witness ==
    \E u \in UserIds :
        /\ ~ IsGlobalAdmin(u)
        /\ RbacOn(ActiveEnv)
        /\ AssignedRoles(u, ActiveEnv) = {}
        /\ \E e \in Envs \ {ActiveEnv} : \E r \in AssignedRoles(u, e) : r.name = "superuser"
        /\ require_permission(u, "bogus", "bogus", None) = "admit"
        /\ require_permission(u, "write", "namespace", Path(Str_a, Str_n)) = "admit"

----------------------------------------------------------------------------
(* Direction, frame and repetition of a sync *)

(* the environments with the active one's mode set to mode *)
WithMode(mode) == [environments EXCEPT ![ActiveEnv].rbac_sync_mode = mode]

(* C28: with an explicit direction the preview and the sync are the same
   under every sync mode; under console_only the preview can proceed, has
   the changes of the diff, and a sync that is not a dry run attempts each
   of them *)
C28_ExplicitDirectionIgnoresMode ==
    \A d \in Directions :
        /\ \A mode \in SyncModes :
              /\ preview_sync(WithMode(mode), roles, role_permissions, pulsar,
                              Tenant, Str_n, d) = Preview(Str_n, d)
              /\ \A dry_run \in BOOLEAN :
                    sync_namespace(WithMode(mode), roles, role_permissions, pulsar,
                                   Tenant, Str_n, d, dry_run)
                    = sync_namespace(environments, roles, role_permissions, pulsar,
                                     Tenant, Str_n, d, dry_run)
        /\ LET preview == preview_sync(WithMode("console_only"), roles, role_permissions,
                                       pulsar, Tenant, Str_n, d)
               out == sync_namespace(WithMode("console_only"), roles, role_permissions,
                                     pulsar, Tenant, Str_n, d, FALSE)
           IN  /\ can_proceed(preview)
               /\ has_changes(preview) <=>
                     \/ DOMAIN ConsoleGrants(Str_n) # DOMAIN pulsar[Str_n]
                     \/ \E name \in DOMAIN pulsar[Str_n] :
                           Range(ConsoleGrants(Str_n)[name]) # Range(pulsar[Str_n][name])
               /\ out.result.changes_applied + out.result.changes_failed
                     = Len(preview.changes)

(* C28 witness: under mode console_only a sync with an explicit direction
   that was not a dry run has applied a change *)
C28_Witness ==
    /\ resp.op = "sync_namespace"
    /\ resp.direction = "pulsar_to_console"
    /\ ~ resp.dry_run
    /\ SyncMode = "console_only"
    /\ resp.result.success
    /\ resp.result.changes_applied >= 1
    /\ DOMAIN ConsoleGrants(resp.namespace) # {}

(* C30: a sync whose direction is console-to-external leaves every table of
   the database as it was, and a sync whose direction is external-to-console
   leaves the cluster's grants as they were, dry run or not, failed changes
   or not *)
C30_OnlyTargetWritten ==
    [][ resp'.op = "sync_namespace" =>
          /\ Effective(resp'.direction) = "console_to_pulsar" => UNCHANGED dbvars
          /\ Effective(resp'.direction) = "pulsar_to_console" => UNCHANGED pulsar
          /\ Effective(resp'.direction) = NoDirection => UNCHANGED <<dbvars, pulsar>> ]_vars

(* C30 witness: an external-to-console sync has applied two changes, one of
   them for a role the console did not have, and the cluster still holds
   its grants *)
C30_Witness ==
    /\ resp.op = "sync_namespace"
    /\ ~ resp.dry_run
    /\ Effective(resp.direction) = "pulsar_to_console"
    /\ resp.result.changes_applied >= 2
    /\ "dev" \in DOMAIN pulsar[resp.namespace]
    /\ "dev" \in DOMAIN ConsoleGrants(resp.namespace)

(* the result of a sync that found nothing to do *)
NoChangesNeeded == SyncResult(TRUE, 0, 0, << [msg |-> "No changes needed"] >>, << >>)

(* what the same sync_namespace call does when it is made again now *)
Again == sync_namespace(environments, roles, role_permissions, pulsar, Tenant,
                        resp.namespace, resp.direction, FALSE)

(* a sync that was not a dry run has just returned success = true *)
SyncSucceeded ==
    /\ resp.op = "sync_namespace"
    /\ ~ resp.dry_run
    /\ resp.direction \in Directions
    /\ resp.result.success

(* the cluster holds a role without actions that the console does not list *)
EmptyGrantOnCluster(ns) ==
    \E name \in DOMAIN pulsar[ns] \ DOMAIN ConsoleGrants(ns) : pulsar[ns][name] = << >>

(* C23 as stated: right after a sync that returned success = true, the same
   sync made again returns success = true, nothing applied, "No changes
   needed", and writes neither store *)
C23_RepeatFindsNoChange ==
    SyncSucceeded =>
        /\ Again.result = NoChangesNeeded
        /\ Again.pulsar = pulsar
        /\ Again.r = roles
        /\ Again.g = role_permissions

(* C23: right after a sync that returned success = true, the same sync made
   again returns success = true and writes neither store; it finds no change
   and says "No changes needed" unless the direction is external-to-console
   and the cluster holds a role with an empty action list, which the sync
   adds again every time *)
C23_RepeatWritesNothing ==
    SyncSucceeded =>
        /\ Again.result.success
        /\ Again.result.changes_failed = 0
        /\ Again.pulsar = pulsar
        /\ Again.r = roles
        /\ Again.g = role_permissions
        /\ Again.result = NoChangesNeeded
              <=> ~ (resp.direction = "pulsar_to_console" /\ EmptyGrantOnCluster(resp.namespace))

(* C23 witness: an external-to-console sync has applied two changes, the
   console now lists both roles of the cluster, and the same sync made again
   finds nothing to do *)
C23_Witness ==
    /\ SyncSucceeded
    /\ resp.direction = "pulsar_to_console"
    /\ resp.result.changes_applied >= 2
    /\ DOMAIN ConsoleGrants(resp.namespace) = PulsarRoles
    /\ Again.result = NoChangesNeeded

----------------------------------------------------------------------------
(* Sync engine: the cluster cannot be read *)

(* the call of the last step attempted the read and the cluster did not
   answer: a direction was given or the environment's mode names one *)
ReadFails ==
    /\ resp.op \in {"preview_sync", "sync_namespace_or_raise"}
    /\ resp.unreachable
    /\ \/ resp.direction # NoDirection
       \/ environments[ActiveEnv].rbac_sync_mode # "console_only"

(* C21: when get_namespace_permissions fails while a preview is computed, the
   failure is not raised to the caller but reported in the returned value:
   a preview that cannot proceed from preview_sync, a SyncResult with
   success = false and nothing applied from sync_namespace *)
C21_ReadFailureReported ==
    ReadFails =>
        /\ resp.out.raised = NotRaised
        /\ resp.op = "preview_sync" => ~ can_proceed(resp.out.preview)
        /\ resp.op = "sync_namespace_or_raise" =>
              /\ ~ resp.out.result.success
              /\ resp.out.result.changes_applied = 0

(* C21, as the code behaves: the failed read leaves preview_sync and
   sync_namespace as a PulsarConnectionError, and no value is returned *)
C21_ReadFailureRaised ==
    ReadFails => resp.out = [raised |-> "PulsarConnectionError"]

(* a sync with an explicit direction met a cluster that did not answer *)
C21_Witness ==
    /\ ReadFails
    /\ resp.op = "sync_namespace_or_raise"
    /\ resp.direction = "console_to_pulsar"
    /\ ~ resp.dry_run
    /\ resp.out.raised = "PulsarConnectionError"

----------------------------------------------------------------------------
(* Sync engine: a running sync and interleaved edits *)

(* the step is an iteration of the running sync's loop *)
ApplyStep == sync_task.state = "applying" /\ resp'.op = "sync_apply"

(* the console's grants of a role on the namespace, in the next state *)
ConsoleActionsAfter(namespace, role) ==
    { g.action : g \in { x \in role_permissions' :
        /\ x.resource_level = "namespace"
        /\ x.resource_pattern = Path(Tenant, namespace)
        /\ \E r \in roles' : /\ r.id = x.role_id /\ r.environment_id = ActiveEnv
                             /\ r.name = role } }

(* the target side holds for the role what the change says, whatever it held *)
Overwritten(direction, namespace, change) ==
    IF direction = "console_to_pulsar"
    THEN IF change.action = "remove"
         THEN change.role \notin DOMAIN pulsar'[namespace]
         ELSE /\ change.role \in DOMAIN pulsar'[namespace]
              /\ pulsar'[namespace][change.role] = change.permissions
    ELSE IF change.action = "remove"
         THEN ConsoleActionsAfter(namespace, change.role) = {}
         ELSE ConsoleActionsAfter(namespace, change.role)
                 = Range(change.permissions) \cap PermissionAction

(* C27: a running sync applies exactly the changes of the preview computed
   at its start.  No step between the read and the return changes the kept
   preview; the n-th iteration applies the n-th change of that preview and
   the call returns after the last one with every change counted; and a
   change that is applied leaves the target side holding, for its role,
   what the change says, whatever an interleaved edit had put there *)
C27_AppliesTheDiffItRead ==
    [][ /\ (sync_task.state = "applying" /\ sync_task'.state = "applying") =>
              /\ sync_task'.preview = sync_task.preview
              /\ sync_task'.namespace = sync_task.namespace
              /\ sync_task'.n \in {sync_task.n, sync_task.n + 1}
        /\ (sync_task.state = "applying" /\ sync_task' # sync_task) => ApplyStep
        /\ ApplyStep =>
              /\ resp'.change = sync_task.preview.changes[sync_task.n + 1]
              /\ resp'.done = (sync_task.n + 1 = Len(sync_task.preview.changes))
              /\ resp'.done = (sync_task'.state = "idle")
              /\ resp'.result.changes_applied + resp'.result.changes_failed
                    = sync_task.n + 1
              /\ ~ resp'.raised =>
                    Overwritten(sync_task.preview.direction, sync_task.namespace,
                                resp'.change)
      ]_vars

(* an add was applied to a target that an edit made after the read had
   filled with other actions, and the target now holds the change's *)
C27_Witness ==
    /\ resp.op = "sync_apply"
    /\ resp.change.action = "add"
    /\ ~ resp.raised
    /\ resp.before # << >>
    /\ resp.before # << resp.change.permissions >>
    /\ TargetEntry(resp.direction, resp.namespace, resp.change.role)
          = << resp.change.permissions >>

----------------------------------------------------------------------------
(* OIDC login: the first user under overlapping logins *)

(* the login of the last step created its user *)
Created == resp.op = "authenticate_oidc" /\ resp.created

(* the user holds the superuser role of every environment *)
SuperuserEverywhere(user_id) ==
    \A e \in DOMAIN environments :
        \E r \in roles : /\ r.environment_id = e /\ r.name = "superuser"
                         /\ BagIn(UR(user_id, r.id), user_roles)

(* the user holds no superuser role *)
SuperuserNowhere(user_id) ==
    \A r \in roles : r.name = "superuser" => ~ BagIn(UR(user_id, r.id), user_roles)

(* C26: exactly one user, the first ever created through OIDC login, is
   created as global admin and given the superuser role of every
   environment; every user created later is created without the flag and
   without a superuser role, however the first logins overlap *)
C26_OneFirstUser ==
    Created =>
        IF DOMAIN users = {resp.subject}
        THEN /\ resp.is_first_user
             /\ users[resp.subject].is_global_admin
             /\ SuperuserEverywhere(resp.subject)
        ELSE /\ ~ resp.is_first_user
             /\ SuperuserNowhere(resp.subject)

(* C26, as the code behaves: a user is created as the first user exactly
   when count_all found no committed user at the time the login read it,
   whatever has been committed since *)
C26_FirstWhenNoneSeen ==
    Created =>
        /\ resp.is_first_user = (resp.user_count = 0)
        /\ resp.is_first_user =>
              /\ users[resp.subject].is_global_admin
              /\ SuperuserEverywhere(resp.subject)
        /\ ~ resp.is_first_user => SuperuserNowhere(resp.subject)

(* two logins overlapped and the second to commit was created as the first
   user too: both users are global admins with superuser everywhere *)
C26_Witness ==
    /\ Created
    /\ resp.is_first_user
    /\ Cardinality(DOMAIN users) = 2
    /\ \A u \in DOMAIN users : users[u].is_global_admin /\ SuperuserEverywhere(u)

====
